---- MODULE Spec2Model ----
(***************************************************************************)
(* Model of the log-analysis / test-orchestration harness.                 *)
(*                                                                         *)
(*   src/analyze_test_logs.py         LogAnalyzer, ReportGenerator, main   *)
(*   src/testing/tools/test_framework.py   TestFramework (agent summary)   *)
(*   src/tools/test_framework.py           TestFramework (claude summary)  *)
(*                                                                         *)
(* Text is modelled at token granularity: a path or a message is a         *)
(* sequence of tokens, str.lower() is a per-token map and the Python       *)
(* substring test `needle in haystack` is a search for the contiguous      *)
(* token sequence of the needle.  A timestamp is a sequence of characters  *)
(* so that the \d+\.\d+ group of LOG_PATTERN is decided character by       *)
(* character.  Floats are carried as integer tenths.                       *)
(*                                                                         *)
(* Specifications                                                          *)
(*   Spec          one LogAnalyzer.parse() over the full line alphabet     *)
(*   SpecScenario  one LogAnalyzer.parse() over long logs (thresholds)     *)
(*   SpecMain      main() of analyze_test_logs.py: several files, report   *)
(*   SpecFramework TestFramework.run_test(): processes, logs, report       *)
(***************************************************************************)
EXTENDS Integers, Sequences, FiniteSets, Bags, TLC

(***************************************************************************)
(* Bounds                                                                  *)
(***************************************************************************)
\* lines read from one file under Spec (full line alphabet)
MaxLines == 3
\* lines read from one file under SpecScenario (threshold scenarios)
MaxScenarioLines == 14
\* lines read from all the files together under SpecMain
MaxReportLines == 2
\* log files found by main() under SpecMain
MaxFiles == 2
\* config.num_clients under SpecFramework
MaxClients == 2
\* config.duration, in polls of the monitor loop
MaxDuration == 2
\* lines the engine processes write to their logs during one test
MaxLogLines == 2

(***************************************************************************)
(* Text helpers                                                            *)
(***************************************************************************)
\* str.lower() on one token
Lower(t) ==
    CASE t = "Logs"     -> "logs"
      [] t = "Server"   -> "server"
      [] t = "Client"   -> "client"
      [] t = "Missing"  -> "missing"
      [] t = "Mismatch" -> "mismatch"
      [] t = "Packet"   -> "packet"
      [] t = "Loss"     -> "loss"
      [] t = "Changed"  -> "changed"
      [] t = "Chunk"    -> "chunk"
      [] t = "Player"   -> "player"
      [] t = "High"     -> "high"
      [] t = "ERROR"    -> "error"
      [] t = "CRITICAL" -> "critical"
      [] t = "Received" -> "received"
      [] OTHER          -> t

\* `needle in text.lower()` : needle is a sequence of lower-case tokens
ContainsLower(text, needle) ==
    \E i \in 1..Len(text) :
        /\ i + Len(needle) - 1 <= Len(text)
        /\ \A j \in 1..Len(needle) : Lower(text[i + j - 1]) = needle[j]

\* `needle in text` : the case-sensitive search
ContainsWords(text, needle) ==
    \E i \in 1..Len(text) :
        /\ i + Len(needle) - 1 <= Len(text)
        /\ \A j \in 1..Len(needle) : text[i + j - 1] = needle[j]

RECURSIVE CountIn(_, _)
\* number of the lines of a file (a bag of lines) that belong to the set S
CountIn(bag, S) ==
    IF S = {} THEN 0
    ELSE LET l == CHOOSE x \in S : TRUE
         IN  CopiesIn(l, bag) + CountIn(bag, S \ {l})

Digits == {"0", "1", "2", "3", "4", "5", "6", "7", "8", "9"}

DigitVal(c) ==
    CASE c = "0" -> 0 [] c = "1" -> 1 [] c = "2" -> 2 [] c = "3" -> 3
      [] c = "4" -> 4 [] c = "5" -> 5 [] c = "6" -> 6 [] c = "7" -> 7
      [] c = "8" -> 8 [] c = "9" -> 9

IsFloatText_AnyDigitsAndDots(ts) ==
    /\ ts # << >>
    /\ \A i \in 1..Len(ts) : ts[i] \in Digits \cup {"."}

\* group 1 of LOG_PATTERN:  \d+\.\d+
IsFloatText(ts) ==
    \E k \in 2..(Len(ts) - 1) :
        /\ ts[k] = "."
        /\ \A i \in (1..Len(ts)) \ {k} : ts[i] \in Digits

RECURSIVE DigitsVal(_)
DigitsVal(ds) ==
    IF ds = << >> THEN 0
    ELSE 10 * DigitsVal(SubSeq(ds, 1, Len(ds) - 1)) + DigitVal(ds[Len(ds)])

\* the texts float() accepts among the timestamp texts of the model:
\* digits with at most one dot and at least one digit
FloatParsable(ts) ==
    /\ \A i \in 1..Len(ts) : ts[i] \in Digits \cup {"."}
    /\ \E i \in 1..Len(ts) : ts[i] \in Digits
    /\ Cardinality({i \in 1..Len(ts) : ts[i] = "."}) <= 1

\* float(text) for a parsable text, in tenths (the fraction is truncated to
\* one digit)
ToFloat(ts) ==
    IF \E i \in 1..Len(ts) : ts[i] = "."
    THEN LET k == CHOOSE i \in 1..Len(ts) : ts[i] = "."
         IN  10 * DigitsVal(SubSeq(ts, 1, k - 1))
                 + (IF k < Len(ts) THEN DigitVal(ts[k + 1]) ELSE 0)
    ELSE 10 * DigitsVal(ts)

\* tokens matched by \w+ (group 2 of LOG_PATTERN)
WordTokens == {"ERROR", "WARN", "INFO", "DEBUG", "TRACE"}

(***************************************************************************)
(* Log paths                                                               *)
(***************************************************************************)
PathServer == <<"logs", "/", "server", ".log">>
PathClient0 == <<"Logs", "/", "client", "_", "0", ".log">>
\* per-test directory of the scenario named basic_single_client
PathBasicServer ==
    <<"test_logs", "/", "basic", "_", "single", "_", "client", "_",
      "20250101", "/", "server", ".log">>
\* project checked out in a directory named gameserver
PathGameserverClient ==
    <<"game", "server", "/", "test_logs", "/", "stress", "_", "test", "_",
      "20250101", "/", "client", "_", "1", ".log">>
PathOther == <<"logs", "/", "godot", ".log">>

Paths == {PathServer, PathClient0, PathBasicServer, PathGameserverClient, PathOther}

\* paths of the threshold scenarios: client hint, both hints, no hint
ScenarioPaths == {PathClient0, PathBasicServer, PathOther}

\* Path(p).name : the tokens after the last separator
RECURSIVE FileName(_)
FileName(p) ==
    IF \E i \in 1..Len(p) : p[i] = "/"
    THEN FileName(Tail(p))
    ELSE p

IsServerLogName(p) == FileName(p) = <<"server", ".log">>
IsClientLogName(p) ==
    /\ Len(FileName(p)) = 4
    /\ FileName(p)[1] = "client"
    /\ FileName(p)[2] = "_"
    /\ FileName(p)[3] \in Digits
    /\ FileName(p)[4] = ".log"

(***************************************************************************)
(* Log lines                                                               *)
(*   bracketed = FALSE : free text without the three leading [..] groups   *)
(*   ts       : characters between the first pair of brackets              *)
(*   level    : text between the second pair of brackets                   *)
(*   category : text between the third pair of brackets                    *)
(*   message  : tokens up to the optional pipe                             *)
(*   meta     : tokens after the pipe (<< >> when there is no pipe)        *)
(***************************************************************************)
Line(b, ts, lvl, cat, msg, meta) ==
    [bracketed |-> b, ts |-> ts, level |-> lvl, category |-> cat,
     message |-> msg, meta |-> meta]

T10 == <<"1", ".", "0">>
T25 == <<"2", ".", "5">>
T127 == <<"1", "2", ".", "7">>

LNoise == Line(FALSE, << >>, "", "", <<"Godot", "Engine", "v4">>, << >>)
LBadTsWord == Line(TRUE, <<"a", "b">>, "INFO", "GAME", <<"tick">>, << >>)
LBadTsInt == Line(TRUE, <<"1", "2">>, "ERROR", "CLIENT_ERROR",
                  <<"Player", "entity", "missing", "from", "snapshot">>, << >>)
LBadTsDots == Line(TRUE, <<"1", ".", "2", ".", "3">>, "WARN", "INTERPOLATOR",
                   <<"buffer", "low">>, << >>)
LBadLevel == Line(TRUE, T10, "WARN-ING", "CLIENT_SNAPSHOT", <<"tick">>, << >>)
LNoMessage == Line(TRUE, T10, "INFO", "SERVER_SNAPSHOT", << >>, << >>)

\* a metadata token is its sequence of characters
MSeq1 == <<"s", "=", "1">>
MSeq2 == <<"s", "=", "2">>
MBare == <<"n", "o">>
MTwoEq == <<"k", "=", "v", "=", "w">>

LSent == Line(TRUE, T25, "INFO", "SERVER_SNAPSHOT", <<"Snapshot", "sent">>,
              <<MSeq1>>)
LRecv == Line(TRUE, T25, "DEBUG", "CLIENT_SNAPSHOT", <<"Received", "snapshot">>, << >>)
LMismatch == Line(TRUE, T25, "WARN", "CLIENT_DELTA", <<"Baseline", "Mismatch">>,
                  <<MSeq1, MBare, MSeq2>>)
LDeltaOk == Line(TRUE, T10, "INFO", "CLIENT_DELTA", <<"delta", "applied">>, << >>)
LMissing == Line(TRUE, T25, "ERROR", "CLIENT_ERROR",
                 <<"Player", "entity", "missing", "from", "snapshot">>, << >>)
LClientErr == Line(TRUE, T127, "ERROR", "CLIENT_ERROR", <<"socket", "closed">>, << >>)
LInterpWarn == Line(TRUE, T25, "WARN", "INTERPOLATOR", <<"buffer", "low">>, << >>)
LInterpInfo == Line(TRUE, T25, "INFO", "INTERPOLATOR", <<"buffer", "ok">>, << >>)
LChunk == Line(TRUE, T127, "INFO", "SERVER_CHUNK", <<"Player", "Changed", "Chunk">>, << >>)
LPacketLoss == Line(TRUE, T10, "TRACE", "GAME", <<"Packet", "Loss", "detected">>, << >>)
LRecvLoss == Line(TRUE, T25, "WARN", "CLIENT_SNAPSHOT",
                  <<"snapshot", "after", "packet", "loss">>, <<MTwoEq>>)
LGameWarn == Line(TRUE, T10, "WARN", "GAME", <<"Missing", "texture">>, << >>)

\* lines that do not match LOG_PATTERN
UnstructuredLines ==
    {LNoise, LBadTsWord, LBadTsInt, LBadTsDots, LBadLevel, LNoMessage}

\* lines that match LOG_PATTERN
StructuredLines ==
    {LSent, LRecv, LMismatch, LDeltaOk, LMissing, LClientErr, LInterpWarn,
     LInterpInfo, LChunk, LPacketLoss, LRecvLoss, LGameWarn}

Lines == UnstructuredLines \cup StructuredLines

\* alphabet of the report runs
ReportLines == {LNoise, LSent, LRecv, LMismatch, LMissing, LInterpWarn}

\* alphabet of the threshold scenarios (one line per rule the detector
\* reads, all with the same timestamp)
ScenarioLines ==
    {LSent, LRecv, LMismatch, LMissing, LInterpWarn, LInterpInfo}

(***************************************************************************)
(* State                                                                   *)
(***************************************************************************)
VARIABLES
    pc,         \* position of the analyser run
    log_path,   \* LogAnalyzer.log_path
    result,     \* LogAnalyzer.result (AnalysisResult)
    consumed,   \* bag of the lines the `for line in f` loop has delivered
    stamps,     \* timestamp texts of the structured lines delivered, in file order
    log_files,  \* main(): the list returned by log_dir.glob("*.log")
    results,    \* main(): the list of finished AnalysisResults
    report_file, \* content of analysis_report.json
    markdown_file, \* content of analysis_report.md
    summary_file, \* content of claude_debug_summary.md
    fw_pc,      \* TestFramework.run_test: control position
    config,     \* the TestConfig of the running test
    server,     \* TestFramework.server
    clients,    \* TestFramework.clients
    logs,       \* the files of test_log_dir
    elapsed,    \* time.time() - start_time of the monitor loop, in seconds
    fw_report,  \* the report dict of _analyze_logs
    fw_saved,   \* the report JSON has been written
    fw_summary, \* the summary file has been written
    fw_raised,  \* the exception in flight in run_test ("" : none)
    fw_reported, \* the "[FRAMEWORK] ERROR: ..." line of the monitor loop ("" : none)
    started,    \* the GodotProcess.start() calls of the running test, in call order
    stopped,    \* the GodotProcess.stop() calls that returned, in call order
    orphans,    \* engine processes of the running test spawned by a start()
                \* that raised before self.clients.append(client)
    more_tests, \* main(): the `--test all` loop has a scenario after this one
    at_pc,      \* automated_test.py: control position
    num_clients, \* automated_test.py: the num_clients argument of run_test
    processes,  \* automated_test.run_test: the list `processes`
    at_raised,  \* automated_test.py: the exception that ended the program ("" : none)
    interrupted, \* automated_test.py: a KeyboardInterrupt was delivered
    scanned,    \* analyze_logs: number of scan_file calls that returned
    scan,       \* analyze_logs: what the latest scan_file call read and printed
    ad_pc,      \* gemini_auto_debug.py: control position
    full_output, \* run_test_and_get_report: the lines read from test.sh
    exit_code,  \* run_test_and_get_report: process.poll() after the read loop
    returned,   \* the (report_path, output) pair of run_test_and_get_report
    ad_raised,  \* gemini_auto_debug.py: the exception that ended the program
    ad_printed, \* gemini_auto_debug.py: the "[AUTO-DEBUG] ..." lines printed
    ad_status   \* gemini_auto_debug.py: the exit status of the program

analyzerVars ==
    <<pc, log_path, result, consumed, stamps, log_files, results, report_file,
      markdown_file, summary_file>>

fwVars ==
    <<fw_pc, config, server, clients, logs, elapsed, fw_report, fw_saved,
      fw_summary, fw_raised, fw_reported, started, stopped, orphans, more_tests>>

fwTrace == <<started, stopped, orphans, more_tests>>

autoVars == <<at_pc, num_clients, processes, at_raised, interrupted, scanned, scan>>

debugVars == <<full_output, ad_pc, exit_code, returned, ad_raised, ad_printed, ad_status>>

toolVars == <<autoVars, debugVars>>

vars == <<analyzerVars, fwVars, toolVars>>

(***************************************************************************)
(* AnalysisResult                                                          *)
(*   entries : the list result.entries is read only through len(),         *)
(*   entries[0].timestamp and entries[-1].timestamp (lines 88-90, 95, 239, *)
(*   301), so it is carried as those three observations.                   *)
(*   An issue string is carried as its fixed text and the number it cites. *)
(***************************************************************************)
NoEntries == [n |-> 0, first |-> 0, last |-> 0]

NewResult(path) ==
    [filename |-> path,
     total_lines |-> 0,
     entries |-> NoEntries,
     errors |-> 0, warnings |-> 0, info |-> 0, debug |-> 0,
     snapshots_sent |-> 0, snapshots_received |-> 0,
     packet_loss_events |-> 0, baseline_mismatches |-> 0,
     player_disappearances |-> 0, interpolation_warnings |-> 0,
     chunk_changes |-> 0,
     critical_issues |-> << >>, warnings_list |-> << >>,
     start_time |-> 0, end_time |-> 0]

Issue(text, n) == [text |-> text, cites |-> n]

(***************************************************************************)
(* LogAnalyzer._parse_line                                                 *)
(***************************************************************************)
\* LOG_PATTERN.match(line)
Matches(line) ==
    /\ line.bracketed
    /\ IsFloatText(line.ts)
    /\ line.level \in WordTokens
    /\ line.category # ""
    /\ line.message # << >>

SplitPair_LastEq(pair) ==
    LET k == CHOOSE i \in 1..Len(pair) :
                 /\ pair[i] = "="
                 /\ \A j \in (i + 1)..Len(pair) : pair[j] # "="
    IN  <<SubSeq(pair, 1, k - 1), SubSeq(pair, k + 1, Len(pair))>>

\* pair.split('=', 1) for a pair that contains '='
SplitPair(pair) ==
    LET k == CHOOSE i \in 1..Len(pair) :
                 /\ pair[i] = "="
                 /\ \A j \in 1..(i - 1) : pair[j] # "="
    IN  <<SubSeq(pair, 1, k - 1), SubSeq(pair, k + 1, Len(pair))>>

HasEq(pair) == \E i \in 1..Len(pair) : pair[i] = "="

\* the metadata dict as a set of <<key, value>> pairs; a later pair
\* with the same key replaces an earlier one
RECURSIVE ParseMetadata(_)
ParseMetadata(tokens) ==
    IF tokens = << >> THEN {}
    ELSE LET init == ParseMetadata(SubSeq(tokens, 1, Len(tokens) - 1))
             pair == tokens[Len(tokens)]
         IN  IF HasEq(pair)
             THEN LET kv == SplitPair(pair)
                  IN  {e \in init : e[1] # kv[1]} \cup {kv}
             ELSE init

None == [none |-> TRUE]
ValueError == [raised |-> "ValueError"]

\* float(match.group(1)) raises ValueError on a text it cannot parse
ParseLine(line) ==
    IF ~Matches(line) THEN None
    ELSE IF ~FloatParsable(line.ts) THEN ValueError
    ELSE [timestamp |-> ToFloat(line.ts),
          level |-> line.level,
          category |-> line.category,
          message |-> line.message,
          metadata |-> ParseMetadata(line.meta),
          raw_line |-> line]

(***************************************************************************)
(* LogAnalyzer._update_metrics                                             *)
(***************************************************************************)
CountLevel_NoElse(r, entry) ==
    IF entry.level = "ERROR" \/ entry.level = "WARN"
    THEN [r EXCEPT !.warnings = @ + 1]
    ELSE IF entry.level = "INFO" THEN [r EXCEPT !.info = @ + 1]
    ELSE IF entry.level = "DEBUG" THEN [r EXCEPT !.debug = @ + 1]
    ELSE r

CountLevel_ElseDebug(r, entry) ==
    IF entry.level = "ERROR" THEN [r EXCEPT !.errors = @ + 1]
    ELSE IF entry.level = "WARN" THEN [r EXCEPT !.warnings = @ + 1]
    ELSE IF entry.level = "INFO" THEN [r EXCEPT !.info = @ + 1]
    ELSE [r EXCEPT !.debug = @ + 1]

CountLevel_LastLevelOnly(r, entry) ==
    LET z == [r EXCEPT !.errors = 0, !.warnings = 0, !.info = 0, !.debug = 0]
    IN  IF entry.level = "ERROR" THEN [z EXCEPT !.errors = r.errors + 1]
        ELSE IF entry.level = "WARN" THEN [z EXCEPT !.warnings = r.warnings + 1]
        ELSE IF entry.level = "INFO" THEN [z EXCEPT !.info = r.info + 1]
        ELSE IF entry.level = "DEBUG" THEN [z EXCEPT !.debug = r.debug + 1]
        ELSE r

CountLevel(r, entry) ==
    IF entry.level = "ERROR" THEN [r EXCEPT !.errors = @ + 1]
    ELSE IF entry.level = "WARN" THEN [r EXCEPT !.warnings = @ + 1]
    ELSE IF entry.level = "INFO" THEN [r EXCEPT !.info = @ + 1]
    ELSE IF entry.level = "DEBUG" THEN [r EXCEPT !.debug = @ + 1]
    ELSE r

IsSnapshotSent(entry) == entry.category = "SERVER_SNAPSHOT"
IsSnapshotReceived(entry) == entry.category = "CLIENT_SNAPSHOT"
IsPacketLoss(entry) == ContainsLower(entry.message, <<"packet", "loss">>)
IsBaselineMismatch(entry) ==
    entry.category = "CLIENT_DELTA" /\ ContainsLower(entry.message, <<"mismatch">>)
IsPlayerDisappearance(entry) ==
    entry.category = "CLIENT_ERROR" /\ ContainsLower(entry.message, <<"missing">>)
IsInterpolationWarning_AnyLevel(entry) == entry.category = "INTERPOLATOR"

IsInterpolationWarning(entry) ==
    entry.category = "INTERPOLATOR" /\ entry.level = "WARN"
IsChunkChange(entry) ==
    entry.category = "SERVER_CHUNK"
        /\ ContainsLower(entry.message, <<"changed", "chunk">>)

UpdateMetrics_ElifChain(r, entry) ==
    LET r1 == CountLevel(r, entry)
    IN  IF IsSnapshotSent(entry) THEN [r1 EXCEPT !.snapshots_sent = @ + 1]
        ELSE IF IsSnapshotReceived(entry) THEN [r1 EXCEPT !.snapshots_received = @ + 1]
        ELSE IF IsPacketLoss(entry) THEN [r1 EXCEPT !.packet_loss_events = @ + 1]
        ELSE IF IsBaselineMismatch(entry) THEN [r1 EXCEPT !.baseline_mismatches = @ + 1]
        ELSE IF IsPlayerDisappearance(entry)
             THEN [r1 EXCEPT !.player_disappearances = @ + 1]
        ELSE IF IsInterpolationWarning(entry)
             THEN [r1 EXCEPT !.interpolation_warnings = @ + 1]
        ELSE IF IsChunkChange(entry) THEN [r1 EXCEPT !.chunk_changes = @ + 1]
        ELSE r1

UpdateMetrics(r, entry) ==
    LET r1 == CountLevel(r, entry)
        r2 == IF IsSnapshotSent(entry)
              THEN [r1 EXCEPT !.snapshots_sent = @ + 1] ELSE r1
        r3 == IF IsSnapshotReceived(entry)
              THEN [r2 EXCEPT !.snapshots_received = @ + 1] ELSE r2
        r4 == IF IsPacketLoss(entry)
              THEN [r3 EXCEPT !.packet_loss_events = @ + 1] ELSE r3
        r5 == IF IsBaselineMismatch(entry)
              THEN [r4 EXCEPT !.baseline_mismatches = @ + 1] ELSE r4
        r6 == IF IsPlayerDisappearance(entry)
              THEN [r5 EXCEPT !.player_disappearances = @ + 1] ELSE r5
        r7 == IF IsInterpolationWarning(entry)
              THEN [r6 EXCEPT !.interpolation_warnings = @ + 1] ELSE r6
    IN  IF IsChunkChange(entry)
        THEN [r7 EXCEPT !.chunk_changes = @ + 1] ELSE r7

(***************************************************************************)
(* LogAnalyzer._detect_issues                                              *)
(***************************************************************************)
TxtDisappearance == "Player disappearance detected"
TxtInterpolation == "High interpolation warnings"
TxtMismatch == "High baseline mismatch rate"
TxtServerZero == "Server sent 0 snapshots!"
TxtClientZero == "Client received 0 snapshots!"

\* self.result.interpolation_warnings > 10
InterpolationThreshold == 10

HighInterpolation_AtLeast(r) == r.interpolation_warnings >= InterpolationThreshold

HighInterpolation(r) == r.interpolation_warnings > InterpolationThreshold

\* mismatch_rate > 0.1 with mismatch_rate = baseline_mismatches /
\* snapshots_received.  Both are integers; the quotient is correctly rounded,
\* so it exceeds the double 0.1 exactly when 10 * mismatches > received for
\* every pair of counters below 2^50.
HighMismatchRate_AtLeast(r) == 10 * r.baseline_mismatches >= r.snapshots_received

HighMismatchRate(r) == 10 * r.baseline_mismatches > r.snapshots_received

\* f"{mismatch_rate*100:.1f}" as tenths of a percent
RatePerMille(r) ==
    (2000 * r.baseline_mismatches + r.snapshots_received)
        \div (2 * r.snapshots_received)

ServerHint(path) == ContainsLower(path, <<"server">>)
ClientHint(path) == ContainsLower(path, <<"client">>)

RuleDisappearance_CitesErrors(r) ==
    IF r.player_disappearances > 0
    THEN [r EXCEPT !.critical_issues = Append(@, Issue(TxtDisappearance, r.errors))]
    ELSE r

\* Issue 1
RuleDisappearance(r) ==
    IF r.player_disappearances > 0
    THEN [r EXCEPT !.critical_issues =
             Append(@, Issue(TxtDisappearance, r.player_disappearances))]
    ELSE r

\* Issue 2
RuleInterpolation(r) ==
    IF HighInterpolation(r)
    THEN [r EXCEPT !.warnings_list =
             Append(@, Issue(TxtInterpolation, r.interpolation_warnings))]
    ELSE r

\* Issue 3
RuleMismatch(r) ==
    IF r.snapshots_received > 0
    THEN IF HighMismatchRate(r)
         THEN [r EXCEPT !.warnings_list =
                  Append(@, Issue(TxtMismatch, RatePerMille(r)))]
         ELSE r
    ELSE r

\* Issue 4, server half
RuleServerZero(r, path) ==
    IF r.snapshots_sent = 0 /\ ServerHint(path)
    THEN [r EXCEPT !.critical_issues = Append(@, Issue(TxtServerZero, 0))]
    ELSE r

\* Issue 4, client half
RuleClientZero(r, path) ==
    IF r.snapshots_received = 0 /\ ClientHint(path)
    THEN [r EXCEPT !.critical_issues = Append(@, Issue(TxtClientZero, 0))]
    ELSE r

DetectIssues_ClientFirst(r, path) ==
    RuleServerZero(
        RuleClientZero(
            RuleMismatch(RuleInterpolation(RuleDisappearance(r))), path), path)

DetectIssues(r, path) ==
    RuleClientZero(
        RuleServerZero(
            RuleMismatch(RuleInterpolation(RuleDisappearance(r))), path), path)

(***************************************************************************)
(* LogAnalyzer.parse                                                       *)
(***************************************************************************)
AppendEntry(r, entry) ==
    [r EXCEPT !.entries =
        [n |-> @.n + 1,
         first |-> IF @.n = 0 THEN entry.timestamp ELSE @.first,
         last |-> entry.timestamp]]

\* one iteration of `for line in f`
ParseStep(r, line) ==
    LET r0 == [r EXCEPT !.total_lines = @ + 1]
        entry == ParseLine(line)
    IN  IF entry = None \/ entry = ValueError THEN r0
        ELSE UpdateMetrics(AppendEntry(r0, entry), entry)

CalculateTiming_EndIsFirst(r) ==
    IF r.entries.n > 0
    THEN [r EXCEPT !.start_time = r.entries.first, !.end_time = r.entries.first]
    ELSE r

\* after the loop: timing, then issue detection
CalculateTiming(r) ==
    IF r.entries.n > 0
    THEN [r EXCEPT !.start_time = r.entries.first, !.end_time = r.entries.last]
    ELSE r

NoFile == [exists |-> FALSE]

\* no TestFramework is running
\* automated_test.py is not running
AutoIdle ==
    /\ at_pc = "idle"
    /\ num_clients = 0
    /\ processes = << >>
    /\ at_raised = ""
    /\ interrupted = FALSE
    /\ scanned = 0
    /\ scan = << >>

\* gemini_auto_debug.py is not running
DebugIdle ==
    /\ ad_pc = "idle"
    /\ full_output = << >>
    /\ exit_code = 0
    /\ returned = << >>
    /\ ad_raised = ""
    /\ ad_printed = {}
    /\ ad_status = 0

FwIdle ==
    /\ fw_pc = "idle"
    /\ config = [num_clients |-> 0, duration |-> 0]
    /\ server = [process |-> "none"]
    /\ clients = << >>
    /\ logs = << >>
    /\ elapsed = 0
    /\ fw_report = << >>
    /\ fw_saved = FALSE
    /\ fw_summary = FALSE
    /\ fw_raised = ""
    /\ fw_reported = ""
    /\ started = << >>
    /\ stopped = << >>
    /\ orphans = {}
    /\ more_tests = FALSE

\* one LogAnalyzer(log_path) about to parse
Init ==
    /\ pc = "reading"
    /\ log_path \in Paths
    /\ result = NewResult(log_path)
    /\ consumed = EmptyBag
    /\ stamps = << >>
    /\ log_files = << >>
    /\ results = << >>
    /\ report_file = NoFile
    /\ markdown_file = NoFile
    /\ summary_file = NoFile
    /\ FwIdle
    /\ AutoIdle
    /\ DebugIdle

InitScenario ==
    /\ pc = "reading"
    /\ log_path \in ScenarioPaths
    /\ result = NewResult(log_path)
    /\ consumed = EmptyBag
    /\ stamps = << >>
    /\ log_files = << >>
    /\ results = << >>
    /\ report_file = NoFile
    /\ markdown_file = NoFile
    /\ summary_file = NoFile
    /\ FwIdle
    /\ AutoIdle
    /\ DebugIdle

\* one iteration of the loop of parse(); an exception of _parse_line leaves
\* parse() (and the program) at that line
ReadLine(line, max) ==
    /\ pc = "reading"
    /\ result.total_lines < max
    /\ result' = ParseStep(result, line)
    /\ consumed' = consumed (+) SetToBag({line})
    /\ stamps' = IF Matches(line) THEN Append(stamps, line.ts) ELSE stamps
    /\ pc' = IF ParseLine(line) = ValueError THEN "raised" ELSE "reading"
    /\ UNCHANGED <<log_path, log_files, results, report_file,
                   markdown_file, summary_file>>
    /\ UNCHANGED fwVars
    /\ UNCHANGED toolVars

ParseFinish ==
    /\ pc = "reading"
    /\ result' = DetectIssues(CalculateTiming(result), log_path)
    /\ pc' = "returned"
    /\ UNCHANGED <<log_path, consumed, stamps, log_files, results, report_file,
                   markdown_file, summary_file>>
    /\ UNCHANGED fwVars
    /\ UNCHANGED toolVars

ReadAnyLine == \E line \in Lines : ReadLine(line, MaxLines)

ReadScenarioLine == \E line \in ScenarioLines : ReadLine(line, MaxScenarioLines)

Next == ReadAnyLine \/ ParseFinish

Spec == Init /\ [][Next]_vars

NextScenario == ReadScenarioLine \/ ParseFinish

SpecScenario == InitScenario /\ [][NextScenario]_vars

(***************************************************************************)
(* ReportGenerator: _calculate_summary and generate_json_report            *)
(***************************************************************************)
SumOver_LastOnly(rs, field) == IF rs = << >> THEN 0 ELSE rs[Len(rs)][field]

RECURSIVE SumOver(_, _)
\* the += loop of _calculate_summary over one counter
SumOver(rs, field) ==
    IF rs = << >> THEN 0
    ELSE SumOver(SubSeq(rs, 1, Len(rs) - 1), field) + rs[Len(rs)][field]

CalculateSummary(rs) ==
    [total_errors |-> SumOver(rs, "errors"),
     total_warnings |-> SumOver(rs, "warnings"),
     total_snapshots_sent |-> SumOver(rs, "snapshots_sent"),
     total_snapshots_received |-> SumOver(rs, "snapshots_received"),
     total_player_disappearances |-> SumOver(rs, "player_disappearances"),
     total_interpolation_warnings |-> SumOver(rs, "interpolation_warnings"),
     has_critical_issues |-> \E i \in 1..Len(rs) : rs[i].critical_issues # << >>,
     has_warnings |-> \E i \in 1..Len(rs) : rs[i].warnings_list # << >>]

DigitChar(d) ==
    CASE d = 0 -> "0" [] d = 1 -> "1" [] d = 2 -> "2" [] d = 3 -> "3"
      [] d = 4 -> "4" [] d = 5 -> "5" [] d = 6 -> "6" [] d = 7 -> "7"
      [] d = 8 -> "8" [] d = 9 -> "9"

RECURSIVE NatToText(_)
NatToText(n) ==
    IF n < 10 THEN <<DigitChar(n)>>
    ELSE NatToText(n \div 10) \o <<DigitChar(n % 10)>>

\* json.dump of a number: its decimal text
NumToText(n) == IF n < 0 THEN <<"-">> \o NatToText(0 - n) ELSE NatToText(n)

\* json.load of a number
TextToNum(t) == IF t[1] = "-" THEN 0 - DigitsVal(Tail(t)) ELSE DigitsVal(t)

\* the dict appended to report_data["files"] for one result
FileEntry(r) ==
    [filename |-> r.filename,
     total_lines |-> r.total_lines,
     entries |-> r.entries.n,
     errors |-> r.errors,
     warnings |-> r.warnings,
     snapshots_sent |-> r.snapshots_sent,
     snapshots_received |-> r.snapshots_received,
     packet_loss_events |-> r.packet_loss_events,
     baseline_mismatches |-> r.baseline_mismatches,
     player_disappearances |-> r.player_disappearances,
     interpolation_warnings |-> r.interpolation_warnings,
     chunk_changes |-> r.chunk_changes,
     critical_issues |-> r.critical_issues,
     warnings_list |-> r.warnings_list,
     duration |-> r.end_time - r.start_time]

ReportData(rs) ==
    [files |-> [i \in 1..Len(rs) |-> FileEntry(rs[i])],
     summary |-> CalculateSummary(rs)]

\* keys whose values are numbers
NumericFileKeys ==
    {"total_lines", "entries", "errors", "warnings", "info", "debug",
     "snapshots_sent", "snapshots_received", "packet_loss_events",
     "baseline_mismatches", "player_disappearances",
     "interpolation_warnings", "chunk_changes", "duration"}

NumericSummaryKeys ==
    {"total_errors", "total_warnings", "total_snapshots_sent",
     "total_snapshots_received", "total_player_disappearances",
     "total_interpolation_warnings"}

\* json.dump(report_data): every number becomes its decimal text
JsonDump(data) ==
    [exists |-> TRUE,
     files |-> [i \in DOMAIN data.files |->
                   [k \in DOMAIN data.files[i] |->
                       IF k \in NumericFileKeys
                       THEN NumToText(data.files[i][k])
                       ELSE data.files[i][k]]],
     summary |-> [k \in DOMAIN data.summary |->
                     IF k \in NumericSummaryKeys
                     THEN NumToText(data.summary[k])
                     ELSE data.summary[k]]]

\* json.load of the report file
JsonLoad(file) ==
    [files |-> [i \in DOMAIN file.files |->
                   [k \in DOMAIN file.files[i] |->
                       IF k \in NumericFileKeys
                       THEN TextToNum(file.files[i][k])
                       ELSE file.files[i][k]]],
     summary |-> [k \in DOMAIN file.summary |->
                     IF k \in NumericSummaryKeys
                     THEN TextToNum(file.summary[k])
                     ELSE file.summary[k]]]

(***************************************************************************)
(* ReportGenerator: generate_markdown_report and generate_claude_summary   *)
(*                                                                         *)
(* A document is the sequence of the blocks written to it: a heading       *)
(* (h1, h2, h3) with its title, or a body block with what it prints.       *)
(***************************************************************************)
Block(kind, body) == [kind |-> kind, body |-> body]

\* the words of an issue string (the number it cites left out)
IssueWords(issue) ==
    CASE issue.text = TxtDisappearance ->
             <<"Player", "disappearance", "detected", "times!", "This", "indicates",
               "delta", "compression", "bugs", "or", "interest", "management", "issues.">>
      [] issue.text = TxtInterpolation ->
             <<"High", "interpolation", "warnings", "Client", "may", "be", "struggling",
               "to", "keep", "buffer", "filled.">>
      [] issue.text = TxtMismatch ->
             <<"High", "baseline", "mismatch", "rate", "This", "is", "expected", "for",
               "UDP", "but", "seems", "unusually", "high.">>
      [] issue.text = TxtServerZero ->
             <<"Server", "sent", "0", "snapshots!", "Server", "may", "not", "be",
               "running", "correctly.">>
      [] issue.text = TxtClientZero ->
             <<"Client", "received", "0", "snapshots!", "Client", "may", "not", "be",
               "connected.">>

\* the blocks of one file in an issue section: its heading, then its issues
IssueBlocks(r, field, kind, title) ==
    IF r[field] = << >> THEN << >>
    ELSE <<Block("h3", title)>>
             \o [j \in 1..Len(r[field]) |-> Block(kind, r[field][j])]

RECURSIVE MarkdownIssueSection(_, _, _)
\* `for result in self.results: if result.<field>: ...`
MarkdownIssueSection(rs, field, kind) ==
    IF rs = << >> THEN << >>
    ELSE MarkdownIssueSection(SubSeq(rs, 1, Len(rs) - 1), field, kind)
             \o IssueBlocks(rs[Len(rs)], field, kind, FileName(rs[Len(rs)].filename))

\* the per-file bullet list of the Markdown report
MarkdownDetail(r) ==
    [duration |-> r.end_time - r.start_time,
     total_lines |-> r.total_lines,
     entries |-> r.entries.n,
     errors |-> r.errors,
     warnings |-> r.warnings,
     snapshots_sent |-> r.snapshots_sent,
     snapshots_received |-> r.snapshots_received,
     packet_loss_events |-> r.packet_loss_events,
     baseline_mismatches |-> r.baseline_mismatches,
     player_disappearances |-> r.player_disappearances,
     chunk_changes |-> r.chunk_changes]

RECURSIVE MarkdownDetails(_)
MarkdownDetails(rs) ==
    IF rs = << >> THEN << >>
    ELSE MarkdownDetails(SubSeq(rs, 1, Len(rs) - 1))
             \o <<Block("h3", FileName(rs[Len(rs)].filename)),
                  Block("detail", MarkdownDetail(rs[Len(rs)]))>>

\* the six bullets of the Overall Summary
SummaryTotals(summary) == [k \in NumericSummaryKeys |-> summary[k]]

MdSummary == "Overall Summary"
MdCritical == "Critical Issues Detected"
MdWarnings == "Warnings"
MdPerFile == "Per-File Analysis"

MarkdownReport_WarningsFirst(rs) ==
    LET summary == CalculateSummary(rs)
    IN  <<Block("h1", "Log Analysis Report"),
          Block("h2", MdSummary),
          Block("totals", SummaryTotals(summary))>>
        \o (IF summary.has_warnings
            THEN <<Block("h2", MdWarnings)>>
                     \o MarkdownIssueSection(rs, "warnings_list", "warning")
            ELSE << >>)
        \o (IF summary.has_critical_issues
            THEN <<Block("h2", MdCritical)>>
                     \o MarkdownIssueSection(rs, "critical_issues", "critical")
            ELSE << >>)
        \o <<Block("h2", MdPerFile)>>
        \o MarkdownDetails(rs)

\* the blocks generate_markdown_report writes
MarkdownReport(rs) ==
    LET summary == CalculateSummary(rs)
    IN  <<Block("h1", "Log Analysis Report"),
          Block("h2", MdSummary),
          Block("totals", SummaryTotals(summary))>>
        \o (IF summary.has_critical_issues
            THEN <<Block("h2", MdCritical)>>
                     \o MarkdownIssueSection(rs, "critical_issues", "critical")
            ELSE << >>)
        \o (IF summary.has_warnings
            THEN <<Block("h2", MdWarnings)>>
                     \o MarkdownIssueSection(rs, "warnings_list", "warning")
            ELSE << >>)
        \o <<Block("h2", MdPerFile)>>
        \o MarkdownDetails(rs)

FixDisappearance ==
    [cause |-> "Delta compression deserialization bug or interest management issue.",
     files |-> {"scripts/entity_snapshot.gd", "scripts/server_world.gd"}]
FixInterpolation ==
    [cause |-> "Network delay too high or client falling behind server.",
     files |-> {"scripts/network_config.gd"}]
FixMismatch ==
    [cause |-> "Out-of-order packet delivery (normal for UDP).", files |-> {}]
FixNone == [cause |-> "No specific suggestion available.", files |-> {}]

\* _suggest_fix
SuggestFix(issue) ==
    IF ContainsLower(IssueWords(issue), <<"disappearance">>) THEN FixDisappearance
    ELSE IF ContainsLower(IssueWords(issue), <<"interpolation", "warnings">>)
         THEN FixInterpolation
    ELSE IF ContainsLower(IssueWords(issue), <<"baseline", "mismatch">>) THEN FixMismatch
    ELSE FixNone

RECURSIVE WithSuggestions(_)
\* each critical issue, then the text _suggest_fix returns for it
WithSuggestions(issues) ==
    IF issues = << >> THEN << >>
    ELSE WithSuggestions(SubSeq(issues, 1, Len(issues) - 1))
             \o <<Block("critical", issues[Len(issues)]),
                  Block("suggestion", SuggestFix(issues[Len(issues)]))>>

RECURSIVE SummaryCriticalSection(_)
SummaryCriticalSection(rs) ==
    IF rs = << >> THEN << >>
    ELSE SummaryCriticalSection(SubSeq(rs, 1, Len(rs) - 1))
             \o (IF rs[Len(rs)].critical_issues = << >> THEN << >>
                 ELSE <<Block("h3", rs[Len(rs)].filename)>>
                          \o WithSuggestions(rs[Len(rs)].critical_issues))

RECURSIVE SummaryWarningSection(_)
SummaryWarningSection(rs) ==
    IF rs = << >> THEN << >>
    ELSE SummaryWarningSection(SubSeq(rs, 1, Len(rs) - 1))
             \o IssueBlocks(rs[Len(rs)], "warnings_list", "warning", rs[Len(rs)].filename)

\* total_interpolation_warnings > 50
RecommendInterpolationAbove == 50

\* _generate_recommendations
GenerateRecommendations(summary) ==
    LET fix == IF summary.total_player_disappearances > 0
               THEN <<"Fix delta compression">> ELSE << >>
        tune == IF summary.total_interpolation_warnings > RecommendInterpolationAbove
                THEN <<"Tune interpolation buffer">> ELSE << >>
    IN  IF fix \o tune = << >> THEN <<"No recommendations">> ELSE fix \o tune

\* _generate_claude_prompts
GenerateClaudePrompts(summary) ==
    (IF summary.has_critical_issues THEN <<"For Critical Issues">> ELSE << >>)
        \o <<"For Performance Analysis">>

CsStatus == "Quick Status"
CsCritical == "Critical Issues Requiring Immediate Attention"
CsWarnings == "Warnings (May Need Investigation)"
CsRecommendations == "Recommendations"
CsPrompts == "Suggested Claude Code Prompts"

\* the blocks generate_claude_summary writes
ClaudeSummary(rs) ==
    LET summary == CalculateSummary(rs)
    IN  <<Block("h1", "Network Testing Debug Summary for Claude Code"),
          Block("h2", CsStatus),
          Block("status", ~summary.has_critical_issues /\ ~summary.has_warnings)>>
        \o (IF summary.has_critical_issues
            THEN <<Block("h2", CsCritical)>> \o SummaryCriticalSection(rs)
            ELSE << >>)
        \o (IF summary.has_warnings
            THEN <<Block("h2", CsWarnings)>> \o SummaryWarningSection(rs)
            ELSE << >>)
        \o <<Block("h2", CsRecommendations),
             Block("recommendations", GenerateRecommendations(summary)),
             Block("h2", CsPrompts),
             Block("prompts", GenerateClaudePrompts(summary))>>

(***************************************************************************)
(* main() of analyze_test_logs.py                                          *)
(***************************************************************************)
MainPaths == {PathServer, PathClient0, PathOther}

\* glob returns each file once, in directory order
LogFileLists ==
    {fs \in UNION {[1..n -> MainPaths] : n \in 1..MaxFiles} :
        \A i, j \in DOMAIN fs : i # j => fs[i] # fs[j]}

InitMain ==
    /\ pc = "main_loop"
    /\ log_files \in LogFileLists
    /\ results = << >>
    /\ log_path = << >>
    /\ result = NewResult(<< >>)
    /\ consumed = EmptyBag
    /\ stamps = << >>
    /\ report_file = NoFile
    /\ markdown_file = NoFile
    /\ summary_file = NoFile
    /\ FwIdle
    /\ AutoIdle
    /\ DebugIdle

\* analyzer = LogAnalyzer(log_file); analyzer.parse() starts
StartAnalyzer ==
    /\ pc = "main_loop"
    /\ Len(results) < Len(log_files)
    /\ log_path' = log_files[Len(results) + 1]
    /\ result' = NewResult(log_path')
    /\ consumed' = EmptyBag
    /\ stamps' = << >>
    /\ pc' = "reading"
    /\ UNCHANGED <<log_files, results, report_file,
                   markdown_file, summary_file>>
    /\ UNCHANGED fwVars
    /\ UNCHANGED toolVars

\* results.append(result)
CollectResult ==
    /\ pc = "returned"
    /\ results' = Append(results, result)
    /\ pc' = "main_loop"
    /\ UNCHANGED <<log_path, result, consumed, stamps, log_files, report_file,
                   markdown_file, summary_file>>
    /\ UNCHANGED fwVars
    /\ UNCHANGED toolVars

\* lines read so far from all the files of the run
LinesReadByMain == SumOver(results, "total_lines") + result.total_lines

NewReportGenerator_BeforeAnalysis ==
    /\ pc = "main_loop"
    /\ \E outcome \in {"ok", "mkdir_failed"} :
           pc' = IF outcome = "ok" THEN "report_gen" ELSE "mkdir_raised"
    /\ UNCHANGED <<log_path, result, consumed, stamps, log_files, results, report_file,
                   markdown_file, summary_file>>
    /\ UNCHANGED fwVars
    /\ UNCHANGED toolVars

\* report_gen = ReportGenerator(results, output_dir): output_dir.mkdir(
\* exist_ok=True) creates the directory or raises out of main()
NewReportGenerator ==
    /\ pc = "main_loop"
    /\ Len(results) = Len(log_files)
    /\ \E outcome \in {"ok", "mkdir_failed"} :
           pc' = IF outcome = "ok" THEN "report_gen" ELSE "mkdir_raised"
    /\ UNCHANGED <<log_path, result, consumed, stamps, log_files, results, report_file,
                   markdown_file, summary_file>>
    /\ UNCHANGED fwVars
    /\ UNCHANGED toolVars

GenerateJsonReport ==
    /\ pc = "report_gen"
    /\ report_file' = JsonDump(ReportData(results))
    /\ pc' = "json_written"
    /\ UNCHANGED <<log_path, result, consumed, stamps, log_files, results,
                   markdown_file, summary_file>>
    /\ UNCHANGED fwVars
    /\ UNCHANGED toolVars

GenerateMarkdownReport ==
    /\ pc = "json_written"
    /\ markdown_file' = [exists |-> TRUE, blocks |-> MarkdownReport(results)]
    /\ pc' = "markdown_written"
    /\ UNCHANGED <<log_path, result, consumed, stamps, log_files, results, report_file,
                   summary_file>>
    /\ UNCHANGED fwVars
    /\ UNCHANGED toolVars

\* the last step of generate_all; main() then returns 0
GenerateClaudeSummary ==
    /\ pc = "markdown_written"
    /\ summary_file' = [exists |-> TRUE, blocks |-> ClaudeSummary(results)]
    /\ pc' = "done"
    /\ UNCHANGED <<log_path, result, consumed, stamps, log_files, results, report_file,
                   markdown_file>>
    /\ UNCHANGED fwVars
    /\ UNCHANGED toolVars

ReadReportLine ==
    \E line \in ReportLines :
        /\ LinesReadByMain < MaxReportLines
        /\ ReadLine(line, MaxReportLines)

NextMain ==
    \/ StartAnalyzer
    \/ ReadReportLine
    \/ ParseFinish
    \/ CollectResult
    \/ NewReportGenerator
    \/ GenerateJsonReport
    \/ GenerateMarkdownReport
    \/ GenerateClaudeSummary

SpecMain == InitMain /\ [][NextMain]_vars

(***************************************************************************)
(* TestFramework (src/testing/tools/test_framework.py)                     *)
(*                                                                         *)
(* A log line of an engine process is a sequence of words; `x in line` is  *)
(* a case-sensitive search for the words of x.  A log file is the bag of   *)
(* its lines.  The two averages (avg_snapshot_size, avg_delay_ms) are      *)
(* only printed and are not carried.                                       *)
(***************************************************************************)
FRecv == <<"Received", "snapshot", "7">>
FMismatch == <<"Baseline", "mismatch", "seq", "4">>
FNotIn == <<"ERROR", "Player", "entity", "1", "NOT", "in", "snapshot">>
FServerSnap == <<"Snapshot", "#", "7", "to", "peer", "2">>

ClientLogLines == {FRecv, FMismatch, FNotIn}
ServerLogLines == {FServerSnap}

MissingFile == [exists |-> FALSE, lines |-> EmptyBag]
EmptyFile == [exists |-> TRUE, lines |-> EmptyBag]

\* the lines of a file
LinesOf(file) == BagToSet(file.lines)

\* number of lines of a file that are in the set matching
CountWhere(file, matching) == CountIn(file.lines, matching)

ErrorEntry == "Log file not found"

AnalyzeServerLog(file) ==
    IF ~file.exists THEN [error |-> ErrorEntry]
    ELSE LET IsSnapshot ==
                 {l \in LinesOf(file) :
                     ContainsWords(l, <<"Snapshot", "#">>) /\ ContainsWords(l, <<"to", "peer">>)}
             IsChunk == {l \in LinesOf(file) : ContainsWords(l, <<"moved", "from", "chunk">>)}
             IsError ==
                 {l \in LinesOf(file) :
                     ContainsWords(l, <<"ERROR">>) \/ ContainsWords(l, <<"WARNING">>)}
         IN  [total_snapshots |-> CountWhere(file, IsSnapshot),
              total_entities |-> 0,
              chunk_changes |-> CountWhere(file, IsChunk),
              errors |-> CountWhere(file, IsError)]

AnalyzeClientLog(file, client_id) ==
    IF ~file.exists THEN [error |-> ErrorEntry, client_id |-> client_id]
    ELSE LET IsRecv == {l \in LinesOf(file) : ContainsWords(l, <<"Received", "snapshot">>)}
             IsGone ==
                 {l \in LinesOf(file) :
                     ContainsWords(l, <<"Player", "entity">>)
                         /\ ContainsWords(l, <<"NOT", "in", "snapshot">>)}
             IsInterp ==
                 {l \in LinesOf(file) :
                     ContainsWords(l, <<"INTERPOLATOR">>) /\ ContainsWords(l, <<"WARNING">>)}
             IsUnderrun ==
                 {l \in LinesOf(file) :
                     ContainsWords(l, <<"Buffer", "underrun">>)
                         \/ ContainsLower(l, <<"stutter">>)}
             IsMismatch == {l \in LinesOf(file) : ContainsWords(l, <<"Baseline", "mismatch">>)}
             IsError == {l \in LinesOf(file) : ContainsWords(l, <<"ERROR">>)}
         IN  [client_id |-> client_id,
              snapshots_received |-> CountWhere(file, IsRecv),
              player_disappearances |-> CountWhere(file, IsGone),
              interpolation_warnings |-> CountWhere(file, IsInterp),
              buffer_underruns |-> CountWhere(file, IsUnderrun),
              baseline_mismatches |-> CountWhere(file, IsMismatch),
              errors |-> CountWhere(file, IsError)]

RECURSIVE ClientEntries(_, _)
\* the loop `for i in range(config.num_clients)` of _analyze_logs, up to n
ClientEntries(files, n) ==
    IF n = 0 THEN << >>
    ELSE IF files[n - 1].exists
         THEN Append(ClientEntries(files, n - 1), AnalyzeClientLog(files[n - 1], n - 1))
         ELSE ClientEntries(files, n - 1)

AnalyzeLogs(files, cfg) ==
    [server |-> AnalyzeServerLog(files.server),
     clients |-> ClientEntries(files.clients, cfg.num_clients)]

\* dict.get(key, default)
Get(d, key, default) == IF key \in DOMAIN d THEN d[key] ELSE default

\* the test `mismatches > received * 0.1` of the summary; received * 0.1 is
\* never below received / 10, so for integers this is 10 * m > r
SummaryHighMismatch(client) ==
    10 * Get(client, "baseline_mismatches", 0) > Get(client, "snapshots_received", 1)

\* mismatches*100//received is evaluated with received = 0 for some client
SummaryDividesByZero(report) ==
    \E i \in 1..Len(report.clients) :
        /\ SummaryHighMismatch(report.clients[i])
        /\ Get(report.clients[i], "snapshots_received", 1) = 0

IsAlive(p) == p.process = "running"

NoProcess == [process |-> "none"]

NoReport == [server |-> << >>, clients |-> << >>]

InitFramework ==
    /\ pc = "idle"
    /\ log_path = << >>
    /\ result = NewResult(<< >>)
    /\ consumed = EmptyBag
    /\ stamps = << >>
    /\ log_files = << >>
    /\ results = << >>
    /\ report_file = NoFile
    /\ markdown_file = NoFile
    /\ summary_file = NoFile
    /\ fw_pc = "start_server"
    /\ config \in [num_clients : 0..MaxClients, duration : {MaxDuration}]
    /\ server = NoProcess
    /\ clients = << >>
    /\ logs = [server |-> MissingFile,
               clients |-> [i \in 0..(MaxClients - 1) |-> MissingFile]]
    /\ elapsed = 0
    /\ fw_report = NoReport
    /\ fw_saved = FALSE
    /\ fw_summary = FALSE
    /\ fw_raised = ""
    /\ fw_reported = ""
    /\ started = << >>
    /\ stopped = << >>
    /\ orphans = {}
    /\ more_tests \in BOOLEAN
    /\ AutoIdle
    /\ DebugIdle

\* GodotProcess.start() followed by the time.sleep() of run_test:
\* open(log_path, 'w') or subprocess.Popen(...) raises, or a KeyboardInterrupt
\* arrives after Popen returned and before start() returns, or it arrives in
\* the sleep that follows
StartOutcomes ==
    {"ok", "open_failed", "popen_failed", "interrupted_in_start", "interrupted_in_sleep"}

\* the engine process exists
Spawned(outcome) == outcome \notin {"open_failed", "popen_failed"}

\* the exception that leaves the try block
RaisedBy(outcome) ==
    CASE outcome = "ok" -> ""
      [] outcome \in {"open_failed", "popen_failed"} -> "OSError"
      [] OTHER -> "KeyboardInterrupt"

\* run_test going on to the clients whatever self.server.start() did
StartServer_IgnoresFailure ==
    /\ fw_pc = "start_server"
    /\ \E outcome \in StartOutcomes :
        /\ server' = [process |-> IF Spawned(outcome) THEN "running" ELSE "none"]
        /\ logs' = IF outcome = "open_failed" THEN logs
                   ELSE [logs EXCEPT !.server = EmptyFile]
        /\ fw_pc' = "start_clients"
        /\ fw_raised' = ""
        /\ started' = Append(started, [role |-> "server", client_id |-> 0,
                                       outcome |-> outcome])
    /\ UNCHANGED <<config, clients, elapsed, fw_report, fw_saved, fw_summary>>
    /\ UNCHANGED analyzerVars
    /\ UNCHANGED toolVars
    /\ UNCHANGED fw_reported
    /\ UNCHANGED <<stopped, orphans, more_tests>>

\* run_test: self.server = GodotProcess(...); self.server.start(); sleep(3)
StartServer ==
    /\ fw_pc = "start_server"
    /\ \E outcome \in StartOutcomes :
        /\ server' = [process |-> IF Spawned(outcome) THEN "running" ELSE "none"]
        /\ logs' = IF outcome = "open_failed" THEN logs
                   ELSE [logs EXCEPT !.server = EmptyFile]
        /\ fw_pc' = IF outcome = "ok" THEN "start_clients" ELSE "cleanup"
        /\ fw_raised' = RaisedBy(outcome)
        /\ started' = Append(started, [role |-> "server", client_id |-> 0,
                                       outcome |-> outcome])
    /\ UNCHANGED <<config, clients, elapsed, fw_report, fw_saved, fw_summary>>
    /\ UNCHANGED analyzerVars
    /\ UNCHANGED toolVars
    /\ UNCHANGED fw_reported
    /\ UNCHANGED <<stopped, orphans, more_tests>>

\* run_test: one iteration of `for i in range(config.num_clients)`:
\* client.start(); self.clients.append(client); time.sleep(1)
StartClient ==
    /\ fw_pc = "start_clients"
    /\ Len(clients) < config.num_clients
    /\ LET i == Len(clients)
       IN  \E outcome \in StartOutcomes :
            /\ clients' = IF outcome \in {"ok", "interrupted_in_sleep"}
                          THEN Append(clients, [client_id |-> i, process |-> "running"])
                          ELSE clients
            /\ orphans' = IF outcome = "interrupted_in_start"
                          THEN orphans \cup {[client_id |-> i, process |-> "running"]}
                          ELSE orphans
            /\ logs' = IF outcome = "open_failed" THEN logs
                       ELSE [logs EXCEPT !.clients[i] = EmptyFile]
            /\ fw_pc' = IF outcome = "ok" THEN "start_clients" ELSE "cleanup"
            /\ fw_raised' = RaisedBy(outcome)
            /\ started' = Append(started, [role |-> "client", client_id |-> i,
                                           outcome |-> outcome])
    /\ UNCHANGED <<config, server, elapsed, fw_report, fw_saved, fw_summary>>
    /\ UNCHANGED analyzerVars
    /\ UNCHANGED toolVars
    /\ UNCHANGED fw_reported
    /\ UNCHANGED <<stopped, more_tests>>

\* run_test: start_time = time.time()
BeginMonitor ==
    /\ fw_pc = "start_clients"
    /\ Len(clients) = config.num_clients
    /\ fw_pc' = "monitor"
    /\ elapsed' = 0
    /\ UNCHANGED <<config, server, clients, logs, fw_report, fw_saved, fw_summary,
                   fw_raised>>
    /\ UNCHANGED analyzerVars
    /\ UNCHANGED toolVars
    /\ UNCHANGED fw_reported
    /\ UNCHANGED fwTrace

AliveClients == Cardinality({i \in 1..Len(clients) : IsAlive(clients[i])})

\* a monitor loop that does not look at the clients
MonitorPoll_NoClientCheck ==
    /\ fw_pc = "monitor"
    /\ IF elapsed >= config.duration
       THEN fw_pc' = "cleanup" /\ elapsed' = elapsed /\ fw_reported' = fw_reported
       ELSE IF ~IsAlive(server)
       THEN fw_pc' = "cleanup" /\ elapsed' = elapsed /\ fw_reported' = "Server died!"
       ELSE fw_pc' = "monitor" /\ elapsed' = elapsed + 1 /\ fw_reported' = fw_reported
    /\ UNCHANGED <<config, server, clients, logs, fw_report, fw_saved, fw_summary,
                   fw_raised>>
    /\ UNCHANGED analyzerVars
    /\ UNCHANGED toolVars
    /\ UNCHANGED fwTrace

\* one evaluation of the while condition and of the body of the monitor loop
MonitorPoll ==
    /\ fw_pc = "monitor"
    /\ IF elapsed >= config.duration
       THEN fw_pc' = "cleanup" /\ elapsed' = elapsed /\ fw_reported' = fw_reported
       ELSE IF ~IsAlive(server)
       THEN fw_pc' = "cleanup" /\ elapsed' = elapsed /\ fw_reported' = "Server died!"
       ELSE IF AliveClients = 0
       THEN fw_pc' = "cleanup" /\ elapsed' = elapsed /\ fw_reported' = "All clients died!"
       ELSE fw_pc' = "monitor" /\ elapsed' = elapsed + 1 /\ fw_reported' = fw_reported
    /\ UNCHANGED <<config, server, clients, logs, fw_report, fw_saved, fw_summary,
                   fw_raised>>
    /\ UNCHANGED analyzerVars
    /\ UNCHANGED toolVars
    /\ UNCHANGED fwTrace

\* a KeyboardInterrupt arrives while the monitor loop runs
Interrupt ==
    /\ fw_pc = "monitor"
    /\ fw_raised' = "KeyboardInterrupt"
    /\ fw_pc' = "cleanup"
    /\ UNCHANGED <<config, server, clients, logs, elapsed, fw_report, fw_saved,
                   fw_summary>>
    /\ UNCHANGED analyzerVars
    /\ UNCHANGED toolVars
    /\ UNCHANGED fw_reported
    /\ UNCHANGED fwTrace

RECURSIVE ClientLinesWritten(_)
ClientLinesWritten(n) ==
    IF n = 0 THEN 0
    ELSE BagCardinality(logs.clients[n - 1].lines) + ClientLinesWritten(n - 1)

WrittenLines == BagCardinality(logs.server.lines) + ClientLinesWritten(MaxClients)

\* the server process prints a line to its stdout, which is server.log
ServerWrites ==
    /\ fw_pc \in {"start_clients", "monitor", "cleanup"}
    /\ IsAlive(server)
    /\ WrittenLines < MaxLogLines
    /\ \E line \in ServerLogLines :
           logs' = [logs EXCEPT !.server.lines = @ (+) SetToBag({line})]
    /\ UNCHANGED <<fw_pc, config, server, clients, elapsed, fw_report, fw_saved,
                   fw_summary, fw_raised>>
    /\ UNCHANGED analyzerVars
    /\ UNCHANGED toolVars
    /\ UNCHANGED fw_reported
    /\ UNCHANGED fwTrace

\* a client process prints a line to its stdout, which is client_<i>.log
ClientWrites ==
    /\ fw_pc \in {"start_clients", "monitor", "cleanup"}
    /\ WrittenLines < MaxLogLines
    /\ \E line \in ClientLogLines :
        \/ \E k \in 1..Len(clients) :
               /\ IsAlive(clients[k])
               /\ logs' = [logs EXCEPT !.clients[clients[k].client_id].lines =
                                           @ (+) SetToBag({line})]
        \/ \E o \in orphans :
               /\ IsAlive(o)
               /\ logs' = [logs EXCEPT !.clients[o.client_id].lines =
                                           @ (+) SetToBag({line})]
    /\ UNCHANGED <<fw_pc, config, server, clients, elapsed, fw_report, fw_saved,
                   fw_summary, fw_raised>>
    /\ UNCHANGED analyzerVars
    /\ UNCHANGED toolVars
    /\ UNCHANGED fw_reported
    /\ UNCHANGED fwTrace

\* an engine process exits on its own
ProcessExits ==
    /\ fw_pc \in {"start_clients", "monitor", "cleanup"}
    /\ \/ /\ IsAlive(server)
          /\ server' = [server EXCEPT !.process = "exited"]
          /\ UNCHANGED <<clients, orphans>>
       \/ /\ \E k \in 1..Len(clients) :
                 /\ IsAlive(clients[k])
                 /\ clients' = [clients EXCEPT ![k].process = "exited"]
          /\ UNCHANGED <<server, orphans>>
       \/ /\ \E o \in orphans :
                 /\ IsAlive(o)
                 /\ orphans' = (orphans \ {o}) \cup {[o EXCEPT !.process = "exited"]}
          /\ UNCHANGED <<server, clients>>
    /\ UNCHANGED <<fw_pc, config, logs, elapsed, fw_report, fw_saved, fw_summary,
                   fw_raised>>
    /\ UNCHANGED analyzerVars
    /\ UNCHANGED toolVars
    /\ UNCHANGED fw_reported
    /\ UNCHANGED <<started, stopped, more_tests>>

\* GodotProcess.stop() without a final wait() after kill()
Stop_NoWaitAfterKill(p, in_time) ==
    IF p.process = "exited" \/ in_time
    THEN [process |-> "exited", calls |-> <<"terminate", "wait">>]
    ELSE [process |-> "running", calls |-> <<"terminate", "TimeoutExpired", "kill">>]

\* GodotProcess.stop() of a started process: terminate(), wait(timeout=5) and,
\* when that raises TimeoutExpired, kill() and wait(); in_time tells whether the
\* process exits within the five seconds
Stop(p, in_time) ==
    IF p.process = "exited" \/ in_time
    THEN [process |-> "exited", calls |-> <<"terminate", "wait">>]
    ELSE [process |-> "exited",
          calls |-> <<"terminate", "TimeoutExpired", "kill", "wait">>]

\* the stop() call of _cleanup on one tracked process
StopRecord(role, client_id, p, in_time) ==
    LET after == Stop(p, in_time)
    IN  [role |-> role, client_id |-> client_id, process |-> after.process,
         calls |-> after.calls]

\* finally: self._cleanup() stops every client in list order, then the server,
\* clears self.clients and sets self.server to None
Cleanup ==
    /\ fw_pc = "cleanup"
    /\ \E in_time \in [0..Len(clients) -> BOOLEAN] :
        /\ \A k \in 1..Len(clients) : ~IsAlive(clients[k]) => in_time[k]
        /\ ~IsAlive(server) => in_time[0]
        /\ stopped' = stopped
               \o [k \in 1..Len(clients) |->
                      StopRecord("client", clients[k].client_id, clients[k], in_time[k])]
               \o (IF server.process = "none" THEN << >>
                   ELSE <<StopRecord("server", 0, server, in_time[0])>>)
    /\ clients' = << >>
    /\ server' = NoProcess
    /\ fw_pc' = "analyze"
    /\ UNCHANGED <<config, logs, elapsed, fw_report, fw_saved, fw_summary, fw_raised>>
    /\ UNCHANGED analyzerVars
    /\ UNCHANGED toolVars
    /\ UNCHANGED fw_reported
    /\ UNCHANGED <<started, orphans, more_tests>>

\* finally: report = self._analyze_logs(test_log_dir, config)
AnalyzeLogsStep ==
    /\ fw_pc = "analyze"
    /\ fw_report' = AnalyzeLogs(logs, config)
    /\ fw_pc' = "save"
    /\ UNCHANGED <<config, server, clients, logs, elapsed, fw_saved, fw_summary,
                   fw_raised>>
    /\ UNCHANGED analyzerVars
    /\ UNCHANGED toolVars
    /\ UNCHANGED fw_reported
    /\ UNCHANGED fwTrace

\* finally: json.dump(report, f, indent=2)
SaveReport ==
    /\ fw_pc = "save"
    /\ fw_saved' = TRUE
    /\ fw_pc' = "summary"
    /\ UNCHANGED <<config, server, clients, logs, elapsed, fw_report, fw_summary,
                   fw_raised>>
    /\ UNCHANGED analyzerVars
    /\ UNCHANGED toolVars
    /\ UNCHANGED fw_reported
    /\ UNCHANGED fwTrace

\* finally: self._generate_agent_summary(report, test_log_dir, config); the
\* ZeroDivisionError of the mismatch percentage leaves run_test
GenerateAgentSummary ==
    /\ fw_pc = "summary"
    /\ IF SummaryDividesByZero(fw_report)
       THEN /\ fw_raised' = "ZeroDivisionError"
            /\ fw_pc' = "raised"
            /\ UNCHANGED fw_summary
       ELSE /\ fw_summary' = TRUE
            /\ fw_pc' = "return"
            /\ UNCHANGED fw_raised
    /\ UNCHANGED <<config, server, clients, logs, elapsed, fw_report, fw_saved>>
    /\ UNCHANGED analyzerVars
    /\ UNCHANGED toolVars
    /\ UNCHANGED fw_reported
    /\ UNCHANGED fwTrace

\* finally: return report (the return discards an exception in flight)
ReturnReport ==
    /\ fw_pc = "return"
    /\ fw_raised' = ""
    /\ fw_pc' = "done"
    /\ UNCHANGED <<config, server, clients, logs, elapsed, fw_report, fw_saved,
                   fw_summary>>
    /\ UNCHANGED analyzerVars
    /\ UNCHANGED toolVars
    /\ UNCHANGED fw_reported
    /\ UNCHANGED fwTrace

\* main(): `for test_config in tests.values(): framework.run_test(test_config)`
\* goes on to the next scenario after run_test returned
NextTest ==
    /\ fw_pc = "done"
    /\ more_tests
    /\ more_tests' \in BOOLEAN
    /\ fw_pc' = "start_server"
    /\ config' \in [num_clients : 0..MaxClients, duration : {MaxDuration}]
    /\ logs' = [server |-> MissingFile,
                clients |-> [i \in 0..(MaxClients - 1) |-> MissingFile]]
    /\ elapsed' = 0
    /\ fw_report' = NoReport
    /\ fw_saved' = FALSE
    /\ fw_summary' = FALSE
    /\ fw_reported' = ""
    /\ started' = << >>
    /\ stopped' = << >>
    /\ orphans' = {}
    /\ UNCHANGED <<server, clients, fw_raised>>
    /\ UNCHANGED analyzerVars
    /\ UNCHANGED toolVars

NextFramework ==
    \/ StartServer
    \/ StartClient
    \/ BeginMonitor
    \/ MonitorPoll
    \/ Interrupt
    \/ ServerWrites
    \/ ClientWrites
    \/ ProcessExits
    \/ Cleanup
    \/ AnalyzeLogsStep
    \/ SaveReport
    \/ GenerateAgentSummary
    \/ ReturnReport
    \/ NextTest

SpecFramework == InitFramework /\ [][NextFramework]_vars

\* main() with one scenario (`--test <name>` or `--test custom`)
InitSingleTest == InitFramework /\ more_tests = FALSE

NextSingleTest ==
    \/ StartServer
    \/ StartClient
    \/ BeginMonitor
    \/ MonitorPoll
    \/ Interrupt
    \/ ServerWrites
    \/ ClientWrites
    \/ ProcessExits
    \/ Cleanup
    \/ AnalyzeLogsStep
    \/ SaveReport
    \/ GenerateAgentSummary
    \/ ReturnReport

\* the interpreter keeps executing the monitor loop: time.sleep(1) returns and
\* the next evaluation of the while condition takes place
SpecSingleTestFair ==
    InitSingleTest /\ [][NextSingleTest]_vars /\ WF_vars(MonitorPoll)

(***************************************************************************)
(* automated_test.py (src/tools/automated_test.py)                         *)
(***************************************************************************)
\* lines of a log file that analyze_logs reads
MaxScanLines == 2

ASnapshot == <<"Received", "snapshot", "#", "12">>
ASnapshotError == <<"ERROR", "Received", "snapshot", "out", "of", "order">>
ALowerSnapshot == <<"received", "snapshot", "late">>
ACriticalError == <<"CRITICAL", "ERROR", "in", "peer">>
APacketLoss == <<"Packet", "Loss", "detected">>
ATick == <<"tick", "41">>

AutoLines ==
    {ASnapshot, ASnapshotError, ALowerSnapshot, ACriticalError, APacketLoss, ATick}

\* the contents a log file can have when it is scanned
ScanContents == UNION {[1..n -> AutoLines] : n \in 0..MaxScanLines}

\* analyze_logs: the dict `patterns`, in insertion order
Patterns ==
    << [label |-> "ERROR", pattern |-> <<"ERROR">>],
       [label |-> "CRITICAL", pattern |-> <<"CRITICAL">>],
       [label |-> "EXCEPTION", pattern |-> <<"Exception">>],
       [label |-> "DISCONNECTED", pattern |-> <<"Peer", "disconnected">>],
       [label |-> "PACKET_LOSS", pattern |-> <<"packet", "loss">>],
       [label |-> "BUFFER_UNDERRUN", pattern |-> <<"BUFFER", "UNDERRUN">>],
       [label |-> "INPUT_RECEIVED", pattern |-> <<"Received", "input">>],
       [label |-> "PREDICTION_ENABLED", pattern |-> <<"Client", "prediction", "ENABLED">>],
       [label |-> "REMOTE_ENTITY", pattern |-> <<"Remote", "Entity">>],
       [label |-> "LAG", pattern |-> <<"high", "latency">>],
       [label |-> "SNAPSHOT", pattern |-> <<"Received", "snapshot">>] >>

\* re.search(pattern, line, re.IGNORECASE) for a pattern of literal words
SearchIgnoreCase(pattern, line) ==
    \E i \in 1..Len(line) :
        /\ i + Len(pattern) - 1 <= Len(line)
        /\ \A j \in 1..Len(pattern) : Lower(line[i + j - 1]) = Lower(pattern[j])

\* `"Received snapshot" in line`
IsSnapshotLine(line) == ContainsWords(line, <<"Received", "snapshot">>)

RECURSIVE LineIssues(_, _)
\* scan_file: the `for label, pattern in patterns.items()` loop on one line,
\* from the k-th pattern on
LineIssues(line, k) ==
    IF k > Len(Patterns) THEN << >>
    ELSE IF Patterns[k].label = "SNAPSHOT" THEN LineIssues(line, k + 1)
    ELSE IF SearchIgnoreCase(Patterns[k].pattern, line)
    THEN <<[label |-> Patterns[k].label, line |-> line]>> \o LineIssues(line, k + 1)
    ELSE LineIssues(line, k + 1)

\* the body of `for line in f` without the `continue` of a snapshot line
ScanLine_NoContinue(acc, line) ==
    IF IsSnapshotLine(line)
    THEN [acc EXCEPT !.snapshot_count = @ + 1,
                     !.issues = @ \o LineIssues(line, 1)]
    ELSE [acc EXCEPT !.issues = @ \o LineIssues(line, 1)]

\* scan_file: the body of `for line in f`
ScanLine(acc, line) ==
    IF IsSnapshotLine(line)
    THEN [acc EXCEPT !.snapshot_count = @ + 1]
    ELSE [acc EXCEPT !.issues = @ \o LineIssues(line, 1)]

RECURSIVE ScanLines(_, _)
ScanLines(acc, content) ==
    IF content = << >> THEN acc
    ELSE ScanLines(ScanLine(acc, Head(content)), Tail(content))

\* analyze_logs.scan_file(filepath, role): the lists it builds and whether it
\* prints "WARNING: No snapshots received!"
ScanFile(content, role) ==
    LET acc == ScanLines([snapshot_count |-> 0, issues |-> << >>], content)
    IN  [role |-> role,
         content |-> content,
         snapshot_count |-> acc.snapshot_count,
         issues |-> acc.issues,
         warned |-> acc.snapshot_count = 0 /\ role # "Server"]

InitAutomated ==
    /\ pc = "idle"
    /\ log_path = << >>
    /\ result = NewResult(<< >>)
    /\ consumed = EmptyBag
    /\ stamps = << >>
    /\ log_files = << >>
    /\ results = << >>
    /\ report_file = NoFile
    /\ markdown_file = NoFile
    /\ summary_file = NoFile
    /\ FwIdle
    /\ DebugIdle
    /\ at_pc = "start_server"
    /\ num_clients \in 0..MaxClients
    /\ processes = << >>
    /\ at_raised = ""
    /\ interrupted = FALSE
    /\ scanned = 0
    /\ scan = << >>

\* run_test: server_proc = subprocess.Popen(...); processes.append(server_proc);
\* open(server_log_path, "w") or Popen may raise OSError
SpawnServer ==
    /\ at_pc = "start_server"
    /\ \E outcome \in {"ok", "OSError"} :
        IF outcome = "ok"
        THEN /\ processes' = <<[process |-> "running", calls |-> << >>]>>
             /\ at_pc' = "warm_up"
             /\ UNCHANGED at_raised
        ELSE /\ at_raised' = outcome
             /\ at_pc' = "exited"
             /\ UNCHANGED processes
    /\ UNCHANGED <<num_clients, interrupted, scanned, scan>>
    /\ UNCHANGED <<analyzerVars, fwVars, debugVars>>

\* run_test: time.sleep(2) returns
WarmUp ==
    /\ at_pc = "warm_up"
    /\ at_pc' = "start_clients"
    /\ UNCHANGED <<num_clients, processes, at_raised, interrupted, scanned, scan>>
    /\ UNCHANGED <<analyzerVars, fwVars, debugVars>>

\* run_test: one client_proc = subprocess.Popen(...); processes.append(client_proc)
SpawnClient ==
    /\ at_pc = "start_clients"
    /\ Len(processes) - 1 < num_clients
    /\ \E outcome \in {"ok", "OSError"} :
        IF outcome = "ok"
        THEN /\ processes' = Append(processes, [process |-> "running", calls |-> << >>])
             /\ at_pc' = "stagger"
             /\ UNCHANGED at_raised
        ELSE /\ at_raised' = outcome
             /\ at_pc' = "exited"
             /\ UNCHANGED processes
    /\ UNCHANGED <<num_clients, interrupted, scanned, scan>>
    /\ UNCHANGED <<analyzerVars, fwVars, debugVars>>

\* run_test: time.sleep(1) of the client loop returns
Stagger ==
    /\ at_pc = "stagger"
    /\ at_pc' = "start_clients"
    /\ UNCHANGED <<num_clients, processes, at_raised, interrupted, scanned, scan>>
    /\ UNCHANGED <<analyzerVars, fwVars, debugVars>>

\* run_test: the client loop is over, the run window begins
BeginRun ==
    /\ at_pc = "start_clients"
    /\ Len(processes) - 1 = num_clients
    /\ at_pc' = "run"
    /\ UNCHANGED <<num_clients, processes, at_raised, interrupted, scanned, scan>>
    /\ UNCHANGED <<analyzerVars, fwVars, debugVars>>

\* run_test: time.sleep(duration) returns
RunEnds ==
    /\ at_pc = "run"
    /\ at_pc' = "stopping"
    /\ UNCHANGED <<num_clients, processes, at_raised, interrupted, scanned, scan>>
    /\ UNCHANGED <<analyzerVars, fwVars, debugVars>>

\* a KeyboardInterrupt arrives in one of the sleeps of run_test: only
\* time.sleep(duration) is inside `try: ... except KeyboardInterrupt`
KeyboardInterrupt ==
    /\ at_pc \in {"warm_up", "stagger", "run"}
    /\ interrupted' = TRUE
    /\ IF at_pc = "run"
       THEN /\ at_pc' = "stopping"
            /\ UNCHANGED at_raised
       ELSE /\ at_pc' = "exited"
            /\ at_raised' = "KeyboardInterrupt"
    /\ UNCHANGED <<num_clients, processes, scanned, scan>>
    /\ UNCHANGED <<analyzerVars, fwVars, debugVars>>

\* an engine process exits on its own
EngineExits ==
    /\ at_pc \in {"warm_up", "start_clients", "stagger", "run", "stopping"}
    /\ \E k \in 1..Len(processes) :
        /\ IsAlive(processes[k])
        /\ processes' = [processes EXCEPT ![k].process = "exited"]
    /\ UNCHANGED <<at_pc, num_clients, at_raised, interrupted, scanned, scan>>
    /\ UNCHANGED <<analyzerVars, fwVars, debugVars>>

\* run_test: p.terminate() for every process, time.sleep(1), then p.kill() for
\* every process whose poll() is still None; in_time tells which processes
\* exit within that second
StopAll ==
    /\ at_pc = "stopping"
    /\ \E in_time \in [1..Len(processes) -> BOOLEAN] :
        /\ \A k \in 1..Len(processes) : ~IsAlive(processes[k]) => in_time[k]
        /\ processes' = [k \in 1..Len(processes) |->
                            [process |-> "exited",
                             calls |-> IF in_time[k] THEN <<"terminate">>
                                       ELSE <<"terminate", "kill">>]]
    /\ at_pc' = "analyze"
    /\ UNCHANGED <<num_clients, at_raised, interrupted, scanned, scan>>
    /\ UNCHANGED <<analyzerVars, fwVars, debugVars>>

\* analyze_logs: scan_file(server_log, "Server"), then scan_file(log,
\* f"Client {i+1}") for each client log
ScanNext ==
    /\ at_pc = "analyze"
    /\ scanned < 1 + num_clients
    /\ \E content \in ScanContents :
        scan' = ScanFile(content, IF scanned = 0 THEN "Server" ELSE "Client")
    /\ scanned' = scanned + 1
    /\ UNCHANGED <<at_pc, num_clients, processes, at_raised, interrupted>>
    /\ UNCHANGED <<analyzerVars, fwVars, debugVars>>

\* the program ends after the last scan_file call
AutoExit ==
    /\ at_pc = "analyze"
    /\ scanned = 1 + num_clients
    /\ at_pc' = "exited"
    /\ UNCHANGED <<num_clients, processes, at_raised, interrupted, scanned, scan>>
    /\ UNCHANGED <<analyzerVars, fwVars, debugVars>>

NextAutomated ==
    \/ SpawnServer
    \/ WarmUp
    \/ SpawnClient
    \/ Stagger
    \/ BeginRun
    \/ RunEnds
    \/ KeyboardInterrupt
    \/ EngineExits
    \/ StopAll
    \/ ScanNext
    \/ AutoExit

SpecAutomated == InitAutomated /\ [][NextAutomated]_vars

(***************************************************************************)
(* gemini_auto_debug.py (src/testing/tools/gemini_auto_debug.py)           *)
(***************************************************************************)
\* lines of test.sh output read by run_test_and_get_report
MaxOutputLines == 3

OReportA == <<"REPORT_JSON", ":", "reports/a_report.json", "\n">>
OReportB == <<"REPORT_JSON", ":", " ", "reports/b_report.json", "\n">>
OReportDrive == <<"REPORT_JSON", ":", "C", ":", "/reports/c_report.json", "\n">>
OIndented == <<" ", "REPORT_JSON", ":", "reports/d_report.json", "\n">>
OProgress == <<"[FRAMEWORK]", "Test", "completed", ":", "basic", "\n">>

OutputLines == {OReportA, OReportB, OReportDrive, OIndented, OProgress}

\* a Python str value; None is the value of a missing one
Some(text) == [none |-> FALSE, text |-> text]

TypeError == [raised |-> "TypeError"]

\* a + b on two values that are str or None
Add(a, b) ==
    IF a = TypeError \/ b = TypeError THEN TypeError
    ELSE IF a = None \/ b = None THEN TypeError
    ELSE Some(a.text \o b.text)

\* `not report_path`
Falsy(p) == p = None \/ p.text = << >>

RECURSIVE Join(_)
\* "".join(full_output)
Join(lines) == IF lines = << >> THEN << >> ELSE Head(lines) \o Join(Tail(lines))

\* line.startswith("REPORT_JSON:")
StartsWithPrefix(line) ==
    Len(line) >= 2 /\ line[1] = "REPORT_JSON" /\ line[2] = ":"

\* line.split(":", 1)[1]
SplitOnce(line) ==
    LET first == CHOOSE i \in 1..Len(line) :
                     line[i] = ":" /\ \A j \in 1..(i - 1) : line[j] # ":"
    IN  SubSeq(line, first + 1, Len(line))

RECURSIVE Strip(_)
\* str.strip()
Strip(text) ==
    IF text = << >> THEN text
    ELSE IF Head(text) \in {" ", "\n"} THEN Strip(Tail(text))
    ELSE IF text[Len(text)] \in {" ", "\n"} THEN Strip(SubSeq(text, 1, Len(text) - 1))
    ELSE text

RECURSIVE FindReportPath_Last(_)
\* the search loop without its `break`
FindReportPath_Last(lines) ==
    IF lines = << >> THEN None
    ELSE IF StartsWithPrefix(lines[Len(lines)])
    THEN Some(Strip(SplitOnce(lines[Len(lines)])))
    ELSE FindReportPath_Last(SubSeq(lines, 1, Len(lines) - 1))

RECURSIVE FindReportPath(_)
\* report_path = None; for line in full_output: if line.startswith(...):
\* report_path = line.split(":", 1)[1].strip(); break
FindReportPath(lines) ==
    IF lines = << >> THEN None
    ELSE IF StartsWithPrefix(Head(lines))
    THEN Some(Strip(SplitOnce(Head(lines))))
    ELSE FindReportPath(Tail(lines))

\* subprocess.CalledProcessError(exit_code, cmd, output=output_str): the
\* stderr argument is not given
CalledProcessError(code, output_str) ==
    [returncode |-> code, stdout |-> Some(output_str), stderr |-> None]

\* process.poll() of a process that has not exited
NotExited == -1

InitAutoDebug ==
    /\ pc = "idle"
    /\ log_path = << >>
    /\ result = NewResult(<< >>)
    /\ consumed = EmptyBag
    /\ stamps = << >>
    /\ log_files = << >>
    /\ results = << >>
    /\ report_file = NoFile
    /\ markdown_file = NoFile
    /\ summary_file = NoFile
    /\ FwIdle
    /\ AutoIdle
    /\ ad_pc = "start"
    /\ full_output = << >>
    /\ exit_code = NotExited
    /\ returned = << >>
    /\ ad_raised = ""
    /\ ad_printed = {}
    /\ ad_status = 0

\* run_test_and_get_report: test_script.exists(), then subprocess.Popen(cmd, ...)
RunTestScript ==
    /\ ad_pc = "start"
    /\ \E exists \in BOOLEAN :
        IF exists
        THEN /\ ad_pc' = "reading"
             /\ UNCHANGED <<returned, ad_printed>>
        ELSE /\ ad_pc' = "returned"
             /\ returned' = [report_path |-> None, output |-> Some(<< >>)]
             /\ ad_printed' = ad_printed \cup {"Error: Could not find test.sh"}
    /\ UNCHANGED <<full_output, exit_code, ad_raised, ad_status>>
    /\ UNCHANGED <<analyzerVars, fwVars, autoVars>>

\* run_test_and_get_report: one line = process.stdout.readline() that is not empty
ReadOutputLine ==
    /\ ad_pc = "reading"
    /\ Len(full_output) < MaxOutputLines
    /\ \E line \in OutputLines : full_output' = Append(full_output, line)
    /\ UNCHANGED <<ad_pc, exit_code, returned, ad_raised, ad_printed, ad_status>>
    /\ UNCHANGED <<analyzerVars, fwVars, autoVars>>

\* run_test_and_get_report from the end of the read loop on: exit_code =
\* process.poll(), the raise and its handler, or the search for REPORT_JSON
ScriptExits ==
    /\ ad_pc = "reading"
    /\ \E code \in {0, 1} :
        /\ exit_code' = code
        /\ IF code # 0
           THEN LET e == CalledProcessError(code, Join(full_output))
                    out == Add(Add(e.stdout, Some(<<"\n">>)), e.stderr)
                IN  /\ ad_printed' = ad_printed \cup {"Test Failed with exit code"}
                    /\ IF out = TypeError
                       THEN /\ ad_raised' = "TypeError"
                            /\ ad_status' = 1
                            /\ ad_pc' = "exited"
                            /\ UNCHANGED returned
                       ELSE /\ returned' = [report_path |-> None, output |-> out]
                            /\ ad_pc' = "returned"
                            /\ UNCHANGED <<ad_raised, ad_status>>
           ELSE LET report_path == FindReportPath(full_output)
                IN  /\ IF Falsy(report_path)
                       THEN /\ ad_printed' = ad_printed
                                   \cup {"Error: No REPORT_JSON found in output."}
                            /\ returned' = [report_path |-> None,
                                            output |-> Some(Join(full_output))]
                       ELSE /\ returned' = [report_path |-> report_path,
                                            output |-> Some(Join(full_output))]
                            /\ UNCHANGED ad_printed
                    /\ ad_pc' = "returned"
                    /\ UNCHANGED <<ad_raised, ad_status>>
    /\ UNCHANGED full_output
    /\ UNCHANGED <<analyzerVars, fwVars, autoVars>>

\* main(): generate_llm_prompt(report_path), or the message and sys.exit(1)
AutoDebugMain ==
    /\ ad_pc = "returned"
    /\ IF ~Falsy(returned.report_path)
       THEN /\ \E loadable \in BOOLEAN :
                ad_printed' = ad_printed \cup
                    {IF loadable THEN "GEMINI DEBUG CONTEXT GENERATED"
                     ELSE "Failed to load report"}
            /\ ad_status' = 0
       ELSE /\ ad_printed' = ad_printed \cup
                {"Could not generate analysis context due to test failure."}
            /\ ad_status' = 1
    /\ ad_pc' = "exited"
    /\ UNCHANGED <<full_output, exit_code, returned, ad_raised>>
    /\ UNCHANGED <<analyzerVars, fwVars, autoVars>>

NextAutoDebug ==
    \/ RunTestScript
    \/ ReadOutputLine
    \/ ScriptExits
    \/ AutoDebugMain

SpecAutoDebug == InitAutoDebug /\ [][NextAutoDebug]_vars

(***************************************************************************)
(* Properties                                                              *)
(***************************************************************************)
HasIssue(list, text) == \E i \in 1..Len(list) : list[i].text = text

\* C1: after parse, a file named client_<i>.log with snapshots_received = 0
\* carries the client-zero issue, a file named server.log with
\* snapshots_sent = 0 carries the server-zero issue, and neither issue is
\* added to a log of the other role.
C1_RoleIssues ==
    pc = "returned" =>
        /\ (IsClientLogName(log_path) /\ result.snapshots_received = 0
                => HasIssue(result.critical_issues, TxtClientZero))
        /\ (IsServerLogName(log_path) /\ result.snapshots_sent = 0
                => HasIssue(result.critical_issues, TxtServerZero))
        /\ (IsClientLogName(log_path)
                => ~HasIssue(result.critical_issues, TxtServerZero))
        /\ (IsServerLogName(log_path)
                => ~HasIssue(result.critical_issues, TxtClientZero))

\* C2: no baseline-mismatch percentage is computed with snapshots_received
\* = 0: the summary of a test never raises ZeroDivisionError.
C2_NoDivisionByZero == fw_raised # "ZeroDivisionError"

\* the report of _analyze_logs has been built
Analysed == fw_pc \in {"save", "summary", "return", "done", "raised"}

\* C3: once the logs are analysed, every expected log file that is missing
\* has a per-file result with the entry 'Log file not found' in the report.
C3_MissingLogEntries ==
    Analysed =>
        /\ ~logs.server.exists => Get(fw_report.server, "error", "") = ErrorEntry
        /\ \A i \in 0..(config.num_clients - 1) :
               ~logs.clients[i].exists =>
                   \E k \in 1..Len(fw_report.clients) :
                       /\ fw_report.clients[k].client_id = i
                       /\ Get(fw_report.clients[k], "error", "") = ErrorEntry

CounterNames ==
    {"total_lines", "entries", "errors", "warnings", "info", "debug",
     "snapshots_sent", "snapshots_received", "packet_loss_events",
     "baseline_mismatches", "player_disappearances",
     "interpolation_warnings", "chunk_changes"}

CounterOf(r, c) == IF c = "entries" THEN r.entries.n ELSE r[c]

\* C4: the JSON report, parsed back, holds for every file every counter of
\* its AnalysisResult with the same value.
C4_JsonRoundTrip ==
    pc = "json_written" =>
        LET loaded == JsonLoad(report_file)
        IN  /\ Len(loaded.files) = Len(results)
            /\ \A i \in 1..Len(results) : \A c \in CounterNames :
                   /\ c \in DOMAIN loaded.files[i]
                   /\ loaded.files[i][c] = CounterOf(results[i], c)

\* C5: the baseline-mismatch warning is present after the pass exactly when
\* snapshots_received > 0 and mismatches / received is strictly above 10 %.
C5_MismatchWarning ==
    pc = "returned" =>
        (HasIssue(result.warnings_list, TxtMismatch)
            <=> /\ result.snapshots_received > 0
                /\ 100 * result.baseline_mismatches > 10 * result.snapshots_received)

\* 1 mismatch in 9 snapshots (11.1 %) raises the warning
C5_Witness ==
    /\ pc = "returned"
    /\ result.snapshots_received = 9
    /\ result.baseline_mismatches = 1
    /\ HasIssue(result.warnings_list, TxtMismatch)

InterpWarnLines ==
    {l \in Lines : Matches(l) /\ l.category = "INTERPOLATOR" /\ l.level = "WARN"}

\* C6: interpolation_warnings equals the number n of structured
\* INTERPOLATOR/WARN lines read, whatever lines are interleaved, and the
\* interpolation warning is present after the pass exactly when n > 10.
C6_InterpolationCount ==
    LET n == CountIn(consumed, InterpWarnLines)
    IN  /\ result.interpolation_warnings = n
        /\ pc = "returned" =>
               (HasIssue(result.warnings_list, TxtInterpolation) <=> n > 10)

\* 11 INTERPOLATOR/WARN lines among other lines: the warning is present
C6_Witness ==
    /\ pc = "returned"
    /\ CopiesIn(LInterpWarn, consumed) = 11
    /\ CopiesIn(LInterpInfo, consumed) > 0
    /\ BagCardinality(consumed) > 12
    /\ HasIssue(result.warnings_list, TxtInterpolation)

\* C7: after the pass the critical list holds a player-disappearance issue
\* exactly when player_disappearances > 0, and that issue cites the final
\* count.
C7_DisappearanceIssue ==
    pc = "returned" =>
        /\ HasIssue(result.critical_issues, TxtDisappearance)
               <=> result.player_disappearances > 0
        /\ \A i \in 1..Len(result.critical_issues) :
               result.critical_issues[i].text = TxtDisappearance
                   => result.critical_issues[i].cites = result.player_disappearances

C7_Witness ==
    /\ pc = "returned"
    /\ result.player_disappearances = 2
    /\ result.errors = 3
    /\ HasIssue(result.critical_issues, TxtDisappearance)

PlayerMissingLines ==
    {l \in Lines :
        /\ Matches(l)
        /\ l.category = "CLIENT_ERROR"
        /\ l.level = "ERROR"
        /\ l.message = <<"Player", "entity", "missing", "from", "snapshot">>}

\* lines that are counted as an error or as a disappearance
ErrorOrMissingLines ==
    {l \in Lines :
        /\ Matches(l)
        /\ \/ l.level = "ERROR"
           \/ l.category = "CLIENT_ERROR" /\ ContainsLower(l.message, <<"missing">>)}

\* C8: a log whose ERROR-level and disappearance lines are exactly n >= 1
\* lines CLIENT_ERROR / ERROR / "Player entity missing from snapshot" yields
\* player_disappearances = n, errors = n and exactly one critical issue
\* that cites n.
C8_PlayerMissingScenario ==
    LET n == CountIn(consumed, PlayerMissingLines)
    IN  (/\ pc = "returned"
         /\ n >= 1
         /\ CountIn(consumed, ErrorOrMissingLines \ PlayerMissingLines) = 0)
        => /\ result.player_disappearances = n
           /\ result.errors = n
           /\ Cardinality({i \in 1..Len(result.critical_issues) :
                              result.critical_issues[i].cites = n}) = 1

C8_Witness ==
    /\ pc = "returned"
    /\ CopiesIn(LMissing, consumed) = 5
    /\ BagCardinality(consumed) = 5
    /\ result.player_disappearances = 5
    /\ Len(result.critical_issues) = 2

CriticalRank(text) ==
    CASE text = TxtDisappearance -> 1
      [] text = TxtServerZero -> 2
      [] text = TxtClientZero -> 3
      [] OTHER -> 0

WarningRank(text) ==
    CASE text = TxtInterpolation -> 1
      [] text = TxtMismatch -> 2
      [] OTHER -> 0

\* C9: critical_issues lists, each at most once and in this order, the
\* disappearance, server-zero and client-zero issues; warnings_list lists,
\* each at most once and in this order, the interpolation and the
\* baseline-mismatch warnings.
C9_RuleOrder ==
    pc = "returned" =>
        /\ \A i \in 1..Len(result.critical_issues) :
               CriticalRank(result.critical_issues[i].text) > 0
        /\ \A i, j \in 1..Len(result.critical_issues) :
               i < j => CriticalRank(result.critical_issues[i].text)
                            < CriticalRank(result.critical_issues[j].text)
        /\ \A i \in 1..Len(result.warnings_list) :
               WarningRank(result.warnings_list[i].text) > 0
        /\ \A i, j \in 1..Len(result.warnings_list) :
               i < j => WarningRank(result.warnings_list[i].text)
                            < WarningRank(result.warnings_list[j].text)

\* all three critical issues at once
C9_Witness ==
    /\ pc = "returned"
    /\ Len(result.critical_issues) = 3
    /\ result.critical_issues[2].text = TxtServerZero

\* C10: reading a line that does not match the grammar raises nothing, adds
\* exactly one to total_lines and leaves the entries and every counter as
\* they were.
C10_UnstructuredLine ==
    [][\A line \in UnstructuredLines :
           (pc = "reading" /\ consumed' = consumed (+) SetToBag({line}))
               => /\ pc' = "reading"
                  /\ ParseLine(line) = None
                  /\ result' = [result EXCEPT !.total_lines = @ + 1]]_vars

\* a line with a malformed timestamp and free text were read; nothing but
\* total_lines moved
C10_Witness ==
    /\ pc = "reading"
    /\ CopiesIn(LBadTsDots, consumed) = 1
    /\ CopiesIn(LBadTsInt, consumed) = 1
    /\ CopiesIn(LNoise, consumed) = 1
    /\ result = [NewResult(log_path) EXCEPT !.total_lines = 3]

\* reference split of one token: the text before and after its first '='
RefSplits(pair) ==
    {<<SubSeq(pair, 1, i - 1), SubSeq(pair, i + 1, Len(pair))>> :
        i \in {i \in 1..Len(pair) :
                  pair[i] = "=" /\ \A j \in 1..(i - 1) : pair[j] # "="}}

\* reference mapping of a metadata segment: for every key the value of the
\* last token that carries the key; tokens without '=' contribute nothing
RefMetadata(tokens) ==
    {kv \in UNION {RefSplits(tokens[i]) : i \in 1..Len(tokens)} :
        \E i \in 1..Len(tokens) :
            /\ kv \in RefSplits(tokens[i])
            /\ \A j \in (i + 1)..Len(tokens) :
                   \A later \in RefSplits(tokens[j]) : later[1] # kv[1]}

\* C11: for every structured line read that has a metadata segment, the
\* parsed metadata is the reference mapping: tokens split on the first '=',
\* tokens without '=' dropped, the last occurrence of a key kept.
C11_MetadataParsing ==
    \A line \in BagToSet(consumed) :
        (Matches(line) /\ line.meta # << >>)
            => ParseLine(line).metadata = RefMetadata(line.meta)

\* a duplicate key with a bare token in between, and a token with two '='
C11_Witness ==
    /\ CopiesIn(LMismatch, consumed) = 1
    /\ CopiesIn(LRecvLoss, consumed) = 1
    /\ ParseLine(LMismatch).metadata = {<<<<"s">>, <<"2">>>>}
    /\ ParseLine(LRecvLoss).metadata = {<<<<"k">>, <<"v", "=", "w">>>>}

LevelCounters == {"errors", "warnings", "info", "debug"}

LevelOf(c) ==
    CASE c = "errors" -> "ERROR"
      [] c = "warnings" -> "WARN"
      [] c = "info" -> "INFO"
      [] c = "debug" -> "DEBUG"

\* C12: reading a structured line adds exactly 1 to the level counter whose
\* level is the line's level and leaves the other level counters alone; a
\* line of any other level moves none of the four and raises nothing.
C12_LevelCounters ==
    [][\A line \in StructuredLines :
           (pc = "reading" /\ consumed' = consumed (+) SetToBag({line}))
               => /\ pc' = "reading"
                  /\ \A c \in LevelCounters :
                         result'[c] = result[c]
                             + (IF line.level = LevelOf(c) THEN 1 ELSE 0)]_vars

\* an ERROR line, a DEBUG line and a TRACE line were read
C12_Witness ==
    /\ pc = "reading"
    /\ CopiesIn(LPacketLoss, consumed) = 1
    /\ CopiesIn(LClientErr, consumed) = 1
    /\ CopiesIn(LRecv, consumed) = 1
    /\ result.errors = 1
    /\ result.debug = 1
    /\ result.warnings = 0
    /\ result.info = 0
    /\ result.entries.n = 3

DomainCounters ==
    {"snapshots_sent", "snapshots_received", "packet_loss_events",
     "baseline_mismatches", "player_disappearances", "interpolation_warnings",
     "chunk_changes"}

\* the condition of the rule of one domain counter
RuleHolds(c, entry) ==
    CASE c = "snapshots_sent" -> IsSnapshotSent(entry)
      [] c = "snapshots_received" -> IsSnapshotReceived(entry)
      [] c = "packet_loss_events" -> IsPacketLoss(entry)
      [] c = "baseline_mismatches" -> IsBaselineMismatch(entry)
      [] c = "player_disappearances" -> IsPlayerDisappearance(entry)
      [] c = "interpolation_warnings" -> IsInterpolationWarning(entry)
      [] c = "chunk_changes" -> IsChunkChange(entry)

\* C13: at every point of the pass each of the seven domain counters equals
\* the number of structured lines read so far that satisfy its own rule,
\* whatever other rules those lines satisfy and in whatever order they came.
C13_RuleIndependence ==
    \A c \in DomainCounters :
        result[c] = CountIn(consumed,
                            {l \in StructuredLines : RuleHolds(c, ParseLine(l))})

\* a line that satisfies two rules, a line that satisfies one and a line
\* that satisfies none
C13_Witness ==
    /\ CopiesIn(LRecvLoss, consumed) = 1
    /\ CopiesIn(LPacketLoss, consumed) = 1
    /\ CopiesIn(LGameWarn, consumed) = 1
    /\ result.snapshots_received = 1
    /\ result.packet_loss_events = 2

\* C14: from one processed line to the next, total_lines, the number of
\* entries and every per-level and domain counter never decrease.
C14_MonotonicCounters ==
    [][pc = "reading" =>
           \A c \in CounterNames : CounterOf(result', c) >= CounterOf(result, c)]_vars

\* three lines were processed, two of them structured and of different level
C14_Witness ==
    /\ pc = "reading"
    /\ result.total_lines = 3
    /\ result.entries.n = 2
    /\ result.errors = 1
    /\ result.warnings = 1

\* C15: start_time and end_time are 0.0 during the pass; after it they are
\* the timestamps of the first and of the last structured line of the file,
\* or both 0.0 when the file has none, and the pass ends without an error.
C15_Timing ==
    /\ pc # "raised"
    /\ pc = "reading" => (result.start_time = 0 /\ result.end_time = 0)
    /\ pc = "returned" =>
           IF stamps = << >>
           THEN result.start_time = 0 /\ result.end_time = 0
           ELSE /\ result.start_time = ToFloat(stamps[1])
                /\ result.end_time = ToFloat(stamps[Len(stamps)])

\* free text, then a line stamped 12.7, then a line stamped 1.0
C15_Witness ==
    /\ pc = "returned"
    /\ CopiesIn(LNoise, consumed) = 1
    /\ stamps = <<T127, T10>>
    /\ result.start_time = 127
    /\ result.end_time = 10

RECURSIVE RefSum(_, _)
\* reference sum of one counter over a list of results, each counted once
RefSum(rs, field) ==
    IF rs = << >> THEN 0 ELSE rs[1][field] + RefSum(Tail(rs), field)

\* the counter a total of the summary adds up
CounterOfTotal(key) ==
    CASE key = "total_errors" -> "errors"
      [] key = "total_warnings" -> "warnings"
      [] key = "total_snapshots_sent" -> "snapshots_sent"
      [] key = "total_snapshots_received" -> "snapshots_received"
      [] key = "total_player_disappearances" -> "player_disappearances"
      [] key = "total_interpolation_warnings" -> "interpolation_warnings"

\* C16: in the written report each of the six totals is the sum of its
\* counter over the results list, every file counted once, and the per-file
\* array lists the files in the order of the results list.
C16_SummaryTotals ==
    report_file.exists =>
        LET loaded == JsonLoad(report_file)
        IN  /\ \A key \in NumericSummaryKeys :
                   loaded.summary[key] = RefSum(results, CounterOfTotal(key))
            /\ Len(loaded.files) = Len(results)
            /\ \A i \in 1..Len(results) :
                   /\ loaded.files[i].filename = results[i].filename
                   /\ results[i].filename = log_files[i]

\* two files, an ERROR line in each
C16_Witness ==
    /\ report_file.exists
    /\ Len(results) = 2
    /\ results[1].errors = 1
    /\ results[2].errors = 1
    /\ JsonLoad(report_file).summary.total_errors = 2

RECURSIVE H2Titles(_)
\* the titles of the sections of a document, in the order written
H2Titles(blocks) ==
    IF blocks = << >> THEN << >>
    ELSE IF Head(blocks).kind = "h2"
         THEN <<Head(blocks).body>> \o H2Titles(Tail(blocks))
         ELSE H2Titles(Tail(blocks))

\* C17: the sections of the Markdown report are, in this order, the summary,
\* the critical issues if and only if some file has a critical issue, the
\* warnings if and only if some file has a warning, and the per-file detail.
C17_MarkdownSections ==
    markdown_file.exists =>
        H2Titles(markdown_file.blocks) =
            <<MdSummary>>
                \o (IF \E i \in 1..Len(results) : results[i].critical_issues # << >>
                    THEN <<MdCritical>> ELSE << >>)
                \o (IF \E i \in 1..Len(results) : results[i].warnings_list # << >>
                    THEN <<MdWarnings>> ELSE << >>)
                \o <<MdPerFile>>

\* one file with a critical issue only, one with a warning only
C17_Witness ==
    /\ markdown_file.exists
    /\ Len(results) = 2
    /\ results[1].critical_issues = << >>
    /\ results[1].warnings_list # << >>
    /\ results[2].critical_issues # << >>
    /\ results[2].warnings_list = << >>
    /\ H2Titles(markdown_file.blocks) = <<MdSummary, MdCritical, MdWarnings, MdPerFile>>

C19_MkdirFailure ==
    [][pc' = "mkdir_raised" =>
           /\ pc = "main_loop"
           /\ results' = results
           /\ Len(results') = Len(log_files')
           /\ ~report_file'.exists
           /\ ~markdown_file'.exists
           /\ ~summary_file'.exists]_vars

\* two analysed files, then the failure
C19_Witness ==
    /\ pc = "mkdir_raised"
    /\ Len(results) = 2
    /\ results[1].total_lines > 0
    /\ results[2].critical_issues # << >>
    /\ ~report_file.exists

\* C20: when a poll of the monitor loop inside the run window finds the
\* server dead or no client alive, the death is reported and the loop is
\* left for cleanup; a run with a reported death ends by returning, with
\* the report JSON and the summary written.
C20_DeathHandled ==
    [][/\ (/\ fw_pc = "monitor"
           /\ fw_pc' # "monitor"
           /\ fw_raised' = fw_raised
           /\ elapsed < config.duration
           /\ ~IsAlive(server) \/ AliveClients = 0)
          => (fw_reported' # "" /\ fw_pc' = "cleanup")
       /\ (fw_reported # "" /\ fw_pc' \in {"done", "raised"})
          => (fw_pc' = "done" /\ fw_saved' /\ fw_summary')]_vars

\* C29: at every point of a pass, errors + warnings + info + debug <= number
\* of structured entries <= total_lines; the six category counters together
\* do not exceed the number of structured entries; and
\* interpolation_warnings <= warnings.
C29_CounterBounds ==
    /\ result.errors + result.warnings + result.info + result.debug <= result.entries.n
    /\ result.entries.n <= result.total_lines
    /\ result.snapshots_sent + result.snapshots_received + result.baseline_mismatches
           + result.player_disappearances + result.interpolation_warnings
           + result.chunk_changes <= result.entries.n
    /\ result.interpolation_warnings <= result.warnings

\* free text, a TRACE line and an INTERPOLATOR line of level INFO were read:
\* every inequality is strict
C29_Witness ==
    /\ pc = "reading"
    /\ CopiesIn(LNoise, consumed) = 1
    /\ CopiesIn(LPacketLoss, consumed) = 1
    /\ CopiesIn(LInterpInfo, consumed) = 1
    /\ result.total_lines = 3
    /\ result.entries.n = 2
    /\ result.info = 1
    /\ result.interpolation_warnings = 0

\* C21: GodotProcess.stop() on a started process first requests termination,
\* kills only after the wait of the grace period timed out, and returns only
\* after a wait() on the process returned, so that is_alive() is false for
\* every process on which stop() has returned.
C21_StopTerminatesThenKills ==
    \A k \in 1..Len(stopped) :
        LET calls == stopped[k].calls
        IN  /\ ~IsAlive(stopped[k])
            /\ calls[1] = "terminate"
            /\ calls[Len(calls)] = "wait"
            /\ \A j \in 1..Len(calls) :
                   calls[j] = "kill" => (j > 1 /\ calls[j - 1] = "TimeoutExpired")

\* a client that exited on termination and a server that had to be killed
C21_Witness ==
    /\ fw_pc = "analyze"
    /\ Len(stopped) = 2
    /\ stopped[1].calls = <<"terminate", "wait">>
    /\ stopped[2].role = "server"
    /\ stopped[2].calls = <<"terminate", "TimeoutExpired", "kill", "wait">>

\* C23: the server is started before any client, the clients are started one
\* at a time in increasing id order, and no client is started when the start
\* of the server failed.
C23_StartOrder ==
    /\ started # << >> => started[1].role = "server"
    /\ \A k \in 2..Len(started) :
           /\ started[k].role = "client"
           /\ started[k].client_id = k - 2
           /\ Spawned(started[1].outcome)
           /\ started[k - 1].outcome = "ok"

\* the server and two clients have been started
C23_Witness ==
    /\ Len(started) = 3
    /\ started[2].client_id = 0
    /\ started[3].client_id = 1
    /\ Len(clients) = 2

\* C26: whenever run_test returns, every engine process started during the
\* test has been stopped, the clients before the server, self.clients is
\* empty and self.server is None.
C26_AllStoppedOnReturn ==
    fw_pc = "done" =>
        /\ clients = << >>
        /\ server = NoProcess
        /\ \A k \in 1..Len(started) :
               Spawned(started[k].outcome) =>
                   \E j \in 1..Len(stopped) :
                       /\ stopped[j].role = started[k].role
                       /\ stopped[j].client_id = started[k].client_id
                       /\ ~IsAlive(stopped[j])
        /\ \A j \in 1..Len(stopped) :
               stopped[j].role = "server" => j = Len(stopped)
        /\ \A o \in orphans : ~IsAlive(o)

\* C27: the monitor loop terminates; a poll leaves the loop exactly when the
\* elapsed time has reached config.duration, the server is not alive or no
\* client is alive, and otherwise a second passes.
C27_MonitorTerminates ==
    /\ [][(/\ fw_pc = "monitor"
           /\ fw_raised' = fw_raised
           /\ fw_pc' # "monitor" \/ elapsed' # elapsed)
          => /\ (fw_pc' = "cleanup") <=>
                    \/ elapsed >= config.duration
                    \/ ~IsAlive(server)
                    \/ AliveClients = 0
             /\ fw_pc' = "monitor" => elapsed' = elapsed + 1]_vars
    /\ (fw_pc = "monitor") ~> (fw_pc = "cleanup")

\* a test without clients left the loop at its first poll
C27_Witness ==
    /\ fw_pc = "cleanup"
    /\ config.num_clients = 0
    /\ IsAlive(server)
    /\ elapsed = 0
    /\ fw_reported = "All clients died!"

\* C30: an exception raised inside the try block of run_test never leaves
\* run_test: the run ends by returning, after cleanup, analysis and the
\* writing of the report and of the summary.
C30_TryExceptionSwallowed ==
    [][(/\ fw_raised \in {"OSError", "KeyboardInterrupt"}
        /\ fw_pc' \in {"done", "raised"})
       => /\ fw_pc' = "done"
          /\ fw_raised' = ""
          /\ clients' = << >>
          /\ fw_saved'
          /\ fw_summary']_vars

\* C22: an interrupt delivered after the first engine process was spawned
\* (server warm-up, client stagger or run window) leads to the cleanup of
\* every spawned process before the orchestrator exits.
C22_InterruptCleansUp ==
    (at_pc = "exited" /\ interrupted) =>
        \A k \in 1..Len(processes) :
            /\ ~IsAlive(processes[k])
            /\ processes[k].calls # << >>

\* lines of `content` that scan_file treats as issue sources
IssueLines(content) == {i \in 1..Len(content) : ~IsSnapshotLine(content[i])}

\* the non-snapshot patterns
IssuePatterns == {k \in 1..Len(Patterns) : Patterns[k].label # "SNAPSHOT"}

\* C28: scan_file counts a line containing 'Received snapshot' as exactly one
\* snapshot and never turns it into an issue; every other line yields one
\* issue per issue pattern it matches; the 'No snapshots received' warning is
\* printed only for a role other than the server with a snapshot count of 0.
C28_ScanFile ==
    scan # << >> =>
        /\ scan.snapshot_count =
               Cardinality({i \in 1..Len(scan.content) : IsSnapshotLine(scan.content[i])})
        /\ \A n \in 1..Len(scan.issues) : ~IsSnapshotLine(scan.issues[n].line)
        /\ Len(scan.issues) =
               Cardinality({<<i, k>> \in IssueLines(scan.content) \X IssuePatterns :
                               SearchIgnoreCase(Patterns[k].pattern, scan.content[i])})
        /\ \A i \in IssueLines(scan.content) : \A k \in IssuePatterns :
               SearchIgnoreCase(Patterns[k].pattern, scan.content[i]) =>
                   \E n \in 1..Len(scan.issues) :
                       scan.issues[n] = [label |-> Patterns[k].label,
                                         line |-> scan.content[i]]
        /\ scan.warned => (scan.role # "Server" /\ scan.snapshot_count = 0)

\* a client log with a snapshot line that also matches ERROR and a line that
\* matches two patterns: one snapshot, two issues, no warning
C28_Witness ==
    /\ scan # << >>
    /\ scan.role = "Client"
    /\ scan.content = <<ASnapshotError, ACriticalError>>
    /\ scan.snapshot_count = 1
    /\ Len(scan.issues) = 2
    /\ ~scan.warned

\* C24: when test.sh exits with a non-zero status, run_test_and_get_report
\* returns (None, captured output) without raising, and main prints 'Could
\* not generate analysis context' and exits with status 1.
C24_FailedTestReported ==
    (ad_pc = "exited" /\ exit_code > 0) =>
        /\ ad_raised = ""
        /\ returned # << >>
        /\ returned.report_path = None
        /\ "Could not generate analysis context due to test failure." \in ad_printed
        /\ ad_status = 1

\* indices of the output lines that start with the REPORT_JSON: prefix
PrefixedLines(lines) == {i \in 1..Len(lines) : StartsWithPrefix(lines[i])}

\* C25: when test.sh exits with status 0, the report path returned is the
\* stripped text after 'REPORT_JSON:' of the first output line starting with
\* that prefix, also when several lines have it, and no report path is
\* returned when no line has it.
C25_FirstReportLine ==
    (ad_pc \in {"returned", "exited"} /\ exit_code = 0) =>
        IF PrefixedLines(full_output) = {}
        THEN returned.report_path = None
        ELSE LET first == CHOOSE i \in PrefixedLines(full_output) :
                              \A j \in PrefixedLines(full_output) : i <= j
                 line == full_output[first]
             IN  /\ returned.report_path # None
                 /\ returned.report_path.text = Strip(SubSeq(line, 3, Len(line)))

\* two REPORT_JSON lines after a line without the prefix: the first one wins
C25_Witness ==
    /\ ad_pc = "returned"
    /\ exit_code = 0
    /\ full_output = <<OIndented, OReportB, OReportA>>
    /\ returned.report_path = Some(<<"reports/b_report.json">>)

====
